---- MODULE Spec2Model ----
(***************************************************************************)
(* Schema-to-query-plan pipeline of sql_to_dashboard: the sqlglot-based    *)
(* DDL parser, the DDL parser server's request handler, the rule-based SQL *)
(* generator and the LLM-assisted query planners.                          *)
(*                                                                         *)
(* Text is modelled by the views the code takes of it: a DDL string is the *)
(* list of statements sqlglot.parse returns for it, the words the safety   *)
(* regexes scan, the table names the CREATE TABLE regex finds, and its     *)
(* length.  A declared column type is a sequence of characters, so that    *)
(* the substring tests of the type classifier are computed, not assumed.   *)
(*                                                                         *)
(* A local of the code that is read several times is bound as              *)
(* CHOOSE r \in { F(x) : x \in {e} } : TRUE, which is F(e) with e evaluated *)
(* once.                                                                   *)
(***************************************************************************)
EXTENDS Integers, Sequences, FiniteSets, TLC

VARIABLES
    ddl,        \* ParseSpec: the statements sqlglot.parse yields for the DDL text
    dialect,    \* ParseSpec: the dialect tag given to DDLParser(...)
    parsed,     \* ParseSpec: outcome of DDLParser.parse (pending / returned / raised)
    schema_dicts,  \* SchemaSpec: the dictionaries _schema_to_dict has returned
    json_str,      \* TripSpec: the string last given to MCPServer.process_json_request
    json_response, \* TripSpec: the JSON document it returned
    trip_raised,   \* TripSpec: the exception that left it ("None": it returned)
    trip_agent,    \* TripSpec: MCPServer.agent (NoAgent before the first construction)
    trip_calls,    \* TripSpec: the agent calls the last request made, in order
    trip_requests, \* TripSpec: the number of requests processed
    schema_cache,  \* AgentSpec: SQLIntelligenceAgent.schema_cache, by schema hash
    query_history, \* AgentSpec: SQLIntelligenceAgent.query_history (the queries stored)
    analysis_requests,  \* AgentSpec: the hashes of the schemas sent to llm.analyze_schema
    agent_last,    \* AgentSpec: what the last call on the agent was and did
    agent_calls,   \* AgentSpec: the number of calls made on the agent
    plan_schema,   \* PlanSpec: the DatabaseSchema handed to a planner
    plan_intents,  \* PlanSpec: the visualization intents handed to a planner
    called,     \* PlanSpec: the planner entry point that has run ("none" before)
    suggestions,  \* PlanSpec: what SQLGenerator.generate_suggestions returned
    query_plans,  \* PlanSpec: what SQLIntelligenceAgent.suggest_queries_for_schema returned
    master_sql,   \* PlanSpec: what LLMAgent.generate_master_query returned
    raised,     \* PlanSpec: the exception the planner call raised ("None": it returned)
    llm_log,    \* PlanSpec: the exchanges with the language model, in call order
    server_kind,  \* ServerSpec: the server constructed ("llm", or "rule_based": the backup)
    request,    \* ServerSpec: the DDLParserRequest received
    server_response,  \* ServerSpec: the DDLParserResponse returned (status "pending" before)
    server_raised,  \* ServerSpec: the exception handle_request caught ("None": none)
    calls,      \* ServerSpec: the validators, parser and LLM requests called, in order
    response_tokens,  \* ExtractSpec: the reply of the language model, as tokens
    extract_call,     \* ExtractSpec: the connector method that has read it ("none" before)
    extract_result,   \* ExtractSpec: the dictionary that method returned
    connection,    \* ExecSpec: QueryExecutor.connection ("None", "open" or "closed")
    exec_config,   \* ExecSpec: QueryExecutor.config
    exec_last,     \* ExecSpec: the last call on the executor and what it did
    exec_ops       \* ExecSpec: the number of calls made on the executor

parseVars == <<ddl, dialect, parsed>>
planVars == <<plan_schema, plan_intents, called, suggestions, query_plans, master_sql, raised, llm_log>>
serverVars == <<server_kind, request, server_response, server_raised, calls>>
schemaVars == <<schema_dicts>>
tripVars == <<json_str, json_response, trip_raised, trip_agent, trip_calls, trip_requests>>
agentVars == <<schema_cache, query_history, analysis_requests, agent_last, agent_calls>>
extractVars == <<response_tokens, extract_call, extract_result>>
execVars == <<connection, exec_config, exec_last, exec_ops>>
vars == <<parseVars, planVars, serverVars, schemaVars, tripVars, agentVars, extractVars, execVars>>

\* Python's None, for string-valued fields.
None == "None"

----------------------------------------------------------------------------
(* Small helpers over sequences.                                           *)

InSeq(x, s) == \E i \in DOMAIN s : s[i] = x

SeqsUpTo(S, n) == UNION {[1..k -> S] : k \in 0..n}

----------------------------------------------------------------------------
(* Declared column types, as character sequences.                          *)

INTEGER == <<"I","N","T","E","G","E","R">>
VARCHAR == <<"V","A","R","C","H","A","R">>
TEXT == <<"T","E","X","T">>
DATE == <<"D","A","T","E">>
DECIMAL == <<"D","E","C","I","M","A","L">>

\* str(kind).upper() of ENUM('printed'): the values are part of the type
ENUM_PRINTED == <<"E","N","U","M","(","'","P","R","I","N","T","E","D","'",")">>

----------------------------------------------------------------------------
(* sqlglot expression nodes, as the parser reads them.                     *)
(* k is the node class; name is this.name; kind the declared type (<<>>    *)
(* when absent); constraints the column constraints; expressions the       *)
(* exp.Column children of a PrimaryKey / ForeignKey; reference the         *)
(* REFERENCES target of a ForeignKey.                                      *)

NoReference == [table |-> None, columns |-> <<>>]

ColumnDef(n, t, cs) ==
    [k |-> "ColumnDef", name |-> n, kind |-> t, constraints |-> cs,
     expressions |-> <<>>, reference |-> NoReference]

PrimaryKey(cols) ==
    [k |-> "PrimaryKey", name |-> None, kind |-> <<>>, constraints |-> <<>>,
     expressions |-> cols, reference |-> NoReference]

ForeignKey(cols, tbl, refcols) ==
    [k |-> "ForeignKey", name |-> None, kind |-> <<>>, constraints |-> <<>>,
     expressions |-> cols, reference |-> [table |-> tbl, columns |-> refcols]]

NotNullColumnConstraint == [c |-> "NotNull", this |-> None]
PrimaryKeyColumnConstraint == [c |-> "PrimaryKey", this |-> None]
DefaultColumnConstraint(v) == [c |-> "Default", this |-> v]

\* A statement of the parsed DDL: exp.Create of a table, any other
\* statement class, or text sqlglot rejects with a ParseError.
CreateTable(n, exprs) == [k |-> "Create", name |-> n, expressions |-> exprs]
OtherStatement == [k |-> "Other", name |-> None, expressions |-> <<>>]
BadStatement == [k |-> "Bad", name |-> None, expressions |-> <<>>]

----------------------------------------------------------------------------
(* DDLParser                                                               *)

RelationType_ONE_TO_MANY == "1:N"

NoneRef == [table |-> None, column |-> None]

\* dialect.lower() over the dialect tags of the model
Lower(s) ==
    CASE s = "SQLite" -> "sqlite"
      [] s = "PostgreSQL" -> "postgresql"
      [] s = "MySQL" -> "mysql"
      [] s = "MariaDB" -> "mariadb"
      [] s = "Oracle" -> "oracle"
      [] OTHER -> s

\* A variant without the aliases: only the three canonical names are known.
_map_dialect_no_alias(d) ==
    LET l == Lower(d) IN
    CASE l = "sqlite" -> "sqlite"
      [] l = "postgres" -> "postgres"
      [] l = "mysql" -> "mysql"
      [] OTHER -> "sqlite"

_map_dialect(d) ==
    LET l == Lower(d) IN
    CASE l = "sqlite" -> "sqlite"
      [] l = "postgresql" -> "postgres"
      [] l = "postgres" -> "postgres"
      [] l = "mysql" -> "mysql"
      [] l = "mariadb" -> "mysql"
      [] OTHER -> "sqlite"

RECURSIVE ConstraintLoop(_, _, _)
ConstraintLoop(cs, i, acc) ==
    IF i > Len(cs) THEN acc
    ELSE ConstraintLoop(cs, i + 1,
            CASE cs[i].c = "NotNull" -> [acc EXCEPT !.is_nullable = FALSE]
              [] cs[i].c = "PrimaryKey" ->
                    [acc EXCEPT !.is_primary_key = TRUE, !.is_nullable = FALSE]
              [] cs[i].c = "Default" ->
                    IF cs[i].this # None
                    THEN [acc EXCEPT !.default_value = cs[i].this]
                    ELSE acc
              [] OTHER -> acc)

NoColumn == [name |-> None, data_type |-> <<>>, is_primary_key |-> FALSE,
             is_foreign_key |-> FALSE, is_nullable |-> TRUE,
             default_value |-> None, references |-> NoneRef]

_parse_column_def(col_def) ==
    IF col_def.name = None THEN NoColumn
    ELSE ConstraintLoop(col_def.constraints, 1,
            [name |-> col_def.name,
             data_type |-> IF col_def.kind = <<>> THEN TEXT ELSE col_def.kind,
             is_primary_key |-> FALSE,
             is_foreign_key |-> FALSE,
             is_nullable |-> TRUE,
             default_value |-> None,
             references |-> NoneRef])

NoFk == [columns |-> <<>>, referenced_table |-> None, referenced_columns |-> <<>>]

_parse_foreign_key(fk) ==
    IF fk.reference.table \in {None, ""} THEN NoFk
    ELSE [columns |-> fk.expressions,
          referenced_table |-> fk.reference.table,
          referenced_columns |-> fk.reference.columns]

\* "Mark columns as foreign keys": only the columns already in the list.
MarkForeignKeys(columns, fk_info) ==
    [j \in DOMAIN columns |->
        IF InSeq(columns[j].name, fk_info.columns)
        THEN [columns[j] EXCEPT
                !.is_foreign_key = TRUE,
                !.references =
                    [table |-> fk_info.referenced_table,
                     column |-> IF fk_info.referenced_columns # <<>>
                                THEN fk_info.referenced_columns[1] ELSE None]]
        ELSE columns[j]]

RECURSIVE ExpressionLoop(_, _, _)
ExpressionLoop(exprs, i, acc) ==
    IF i > Len(exprs) THEN acc
    ELSE LET expr == exprs[i]
             col_info == _parse_column_def(expr)
             fk_info == _parse_foreign_key(expr)
         IN ExpressionLoop(exprs, i + 1,
              CASE expr.k = "ColumnDef" ->
                     IF col_info = NoColumn THEN acc
                     ELSE [acc EXCEPT
                             !.columns = Append(@, col_info),
                             !.primary_keys = IF col_info.is_primary_key
                                              THEN Append(@, col_info.name) ELSE @]
                [] expr.k = "PrimaryKey" ->
                     [acc EXCEPT !.primary_keys = @ \o expr.expressions]
                [] expr.k = "ForeignKey" ->
                     IF fk_info = NoFk THEN acc
                     ELSE [acc EXCEPT
                             !.foreign_keys = Append(@, fk_info),
                             !.columns = MarkForeignKeys(@, fk_info)]
                [] OTHER -> acc)

NoTable == [name |-> None, columns |-> <<>>, primary_keys |-> <<>>,
            foreign_keys |-> <<>>, indexes |-> <<>>]

_parse_create_table(create_stmt) ==
    IF create_stmt.name \in {None, ""} THEN NoTable
    ELSE ExpressionLoop(create_stmt.expressions, 1,
            [name |-> create_stmt.name, columns |-> <<>>, primary_keys |-> <<>>,
             foreign_keys |-> <<>>, indexes |-> <<>>])

\* A variant that takes the referenced column for the referencing one.
_extract_relationship_swapped(table_name, fk_info) ==
    [from_table |-> table_name,
     to_table |-> fk_info.referenced_table,
     from_column |-> IF fk_info.referenced_columns # <<>>
                     THEN fk_info.referenced_columns[1] ELSE "id",
     to_column |-> IF fk_info.columns # <<>> THEN fk_info.columns[1] ELSE "id",
     type |-> RelationType_ONE_TO_MANY,
     label |-> None]

_extract_relationship(table_name, fk_info) ==
    [from_table |-> table_name,
     to_table |-> fk_info.referenced_table,
     from_column |-> IF fk_info.columns # <<>> THEN fk_info.columns[1] ELSE "id",
     to_column |-> IF fk_info.referenced_columns # <<>>
                   THEN fk_info.referenced_columns[1] ELSE "id",
     type |-> RelationType_ONE_TO_MANY,
     label |-> None]

\* for fk in table_info.foreign_keys: relationships.append(...)
TableRelationships(table_info) ==
    [j \in DOMAIN table_info.foreign_keys |->
        _extract_relationship(table_info.name, table_info.foreign_keys[j])]

\* A variant that puts each new table in front of the list.
RECURSIVE StatementLoop_prepend(_, _, _)
StatementLoop_prepend(statements, i, acc) ==
    IF i > Len(statements) THEN acc
    ELSE LET table_info == _parse_create_table(statements[i])
         IN StatementLoop_prepend(statements, i + 1,
              IF statements[i].k = "Create" /\ table_info # NoTable
              THEN [tables |-> <<table_info>> \o acc.tables,
                    relationships |-> acc.relationships \o TableRelationships(table_info)]
              ELSE acc)

RECURSIVE StatementLoop(_, _, _)
StatementLoop(statements, i, acc) ==
    IF i > Len(statements) THEN acc
    ELSE LET table_info == _parse_create_table(statements[i])
         IN StatementLoop(statements, i + 1,
              IF statements[i].k = "Create" /\ table_info # NoTable
              THEN [tables |-> Append(acc.tables, table_info),
                    relationships |-> acc.relationships \o TableRelationships(table_info)]
              ELSE acc)

\* sqlglot.parse raises a ParseError for text it cannot parse
SqlglotRaises(statements) == \E i \in DOMAIN statements : statements[i].k = "Bad"

NoSchema == [tables |-> <<>>, relationships |-> <<>>, database_type |-> None]

\* A variant that raises ParsingError whenever no table was extracted.
DDLParser_parse_raise_on_empty(d, statements) ==
    LET r == StatementLoop(statements, 1, [tables |-> <<>>, relationships |-> <<>>])
    IN IF SqlglotRaises(statements) \/ r.tables = <<>>
       THEN [outcome |-> "raised", error |-> "ParsingError", schema |-> NoSchema]
       ELSE [outcome |-> "returned", error |-> None,
             schema |-> [tables |-> r.tables, relationships |-> r.relationships,
                         database_type |-> _map_dialect(d)]]

DDLParser_parse(d, statements) ==
    IF SqlglotRaises(statements)
    THEN [outcome |-> "raised", error |-> "ParsingError", schema |-> NoSchema]
    ELSE LET r == StatementLoop(statements, 1, [tables |-> <<>>, relationships |-> <<>>])
         IN [outcome |-> "returned", error |-> None,
             schema |-> [tables |-> r.tables, relationships |-> r.relationships,
                         database_type |-> _map_dialect(d)]]

----------------------------------------------------------------------------
(* SQLGenerator: the rule-based planner.                                   *)
(* A query is kept by its clauses, not its text: shape names the template, *)
(* from_table the FROM table, column the column the template is built on,  *)
(* joins the joined tables in order, limit the LIMIT (0: none), terminated *)
(* whether the text ends with a semicolon.                                 *)

Query(shape, t, c, js, lim, term) ==
    [shape |-> shape, from_table |-> t, column |-> c, joins |-> js,
     limit |-> lim, terminated |-> term]

QuerySuggestion(q, d, v, cols) ==
    [query |-> q, description |-> d, visualization_type |-> v, expected_columns |-> cols]

Contains(hay, needle) ==
    \E i \in 1..(Len(hay) - Len(needle) + 1) :
        SubSeq(hay, i, i + Len(needle) - 1) = needle

categorical_types ==
    { <<"V","A","R","C","H","A","R">>, <<"C","H","A","R">>, <<"T","E","X","T">>,
      <<"S","T","R","I","N","G">>, <<"E","N","U","M">>,
      <<"N","V","A","R","C","H","A","R">> }

numeric_types ==
    { <<"I","N","T">>, <<"D","E","C","I","M","A","L">>, <<"F","L","O","A","T">>,
      <<"D","O","U","B","L","E">>, <<"N","U","M","E","R","I","C">>,
      <<"R","E","A","L">>, <<"N","U","M","B","E","R">> }

date_types ==
    { <<"D","A","T","E">>, <<"T","I","M","E">>,
      <<"D","A","T","E","T","I","M","E">>,
      <<"T","I","M","E","S","T","A","M","P">> }

\* data_type is upper case already: the parser stores str(kind).upper().
_is_categorical_type(data_type) == \E cat \in categorical_types : Contains(data_type, cat)

_is_numeric_type(data_type) == \E num \in numeric_types : Contains(data_type, num)

_is_date_type(data_type) == \E dt \in date_types : Contains(data_type, dt)

RECURSIVE SelectCols(_, _, _)
\* [col for col in columns if keep[col]], keep given as the set of kept indexes
SelectCols(columns, keep, i) ==
    IF i > Len(columns) THEN <<>>
    ELSE (IF i \in keep THEN <<columns[i]>> ELSE <<>>) \o SelectCols(columns, keep, i + 1)

Take(s, n) == SubSeq(s, 1, IF Len(s) < n THEN Len(s) ELSE n)

RECURSIVE Flatten(_)
Flatten(ss) == IF ss = <<>> THEN <<>> ELSE Head(ss) \o Flatten(Tail(ss))

CategoricalCols(table) ==
    SelectCols(table.columns,
               {i \in DOMAIN table.columns :
                    _is_categorical_type(table.columns[i].data_type)
                    /\ ~table.columns[i].is_primary_key}, 1)

NumericCols(table) ==
    SelectCols(table.columns,
               {i \in DOMAIN table.columns :
                    _is_numeric_type(table.columns[i].data_type)
                    /\ ~table.columns[i].is_primary_key}, 1)

DateCols(table) ==
    SelectCols(table.columns,
               {i \in DOMAIN table.columns : _is_date_type(table.columns[i].data_type)}, 1)

ColumnNames(columns) == [i \in DOMAIN columns |-> columns[i].name]

\* A variant that leaves out the count query.
_generate_overview_queries_sample_only(schema) ==
    Flatten([i \in DOMAIN schema.tables |->
        LET table == schema.tables[i] IN
        << QuerySuggestion(Query("sample", table.name, None, <<>>, 100, FALSE),
                           <<"Sample data from", table.name>>, "table",
                           ColumnNames(table.columns)) >>])

_generate_overview_queries(schema) ==
    Flatten([i \in DOMAIN schema.tables |->
        LET table == schema.tables[i] IN
        << QuerySuggestion(Query("sample", table.name, None, <<>>, 100, FALSE),
                           <<"Sample data from", table.name>>, "table",
                           ColumnNames(table.columns)),
           QuerySuggestion(Query("count", table.name, None, <<>>, 0, FALSE),
                           <<"Total number of records in", table.name>>, "table",
                           <<"row_count">>) >>])

\* A variant whose numeric columns include the primary key.
_generate_distribution_queries_with_keys(schema) ==
    Flatten([i \in DOMAIN schema.tables |->
        LET table == schema.tables[i]
            cat == Take(CategoricalCols(table), 3)
            num == Take(SelectCols(table.columns,
                                   {j \in DOMAIN table.columns :
                                      _is_numeric_type(table.columns[j].data_type)}, 1), 2)
        IN [j \in DOMAIN cat |->
               QuerySuggestion(Query("distribution", table.name, cat[j].name, <<>>, 20, FALSE),
                               <<"Distribution of", cat[j].name, table.name>>, "bar",
                               <<"category", "count">>)]
           \o
           [j \in DOMAIN num |->
               QuerySuggestion(Query("histogram", table.name, num[j].name, <<>>, 0, FALSE),
                               <<"Distribution of values", num[j].name, table.name>>, "bar",
                               <<"range", "count">>)]])

_generate_distribution_queries(schema) ==
    Flatten([i \in DOMAIN schema.tables |->
        LET table == schema.tables[i]
            cat == Take(CategoricalCols(table), 3)
            num == Take(NumericCols(table), 2)
        IN [j \in DOMAIN cat |->
               QuerySuggestion(Query("distribution", table.name, cat[j].name, <<>>, 20, FALSE),
                               <<"Distribution of", cat[j].name, table.name>>, "bar",
                               <<"category", "count">>)]
           \o
           [j \in DOMAIN num |->
               QuerySuggestion(Query("histogram", table.name, num[j].name, <<>>, 0, FALSE),
                               <<"Distribution of values", num[j].name, table.name>>, "bar",
                               <<"range", "count">>)]])

\* table.name.lower() == table_name.lower(): the names of the model are lower case
_find_table(schema, table_name) ==
    LET hits == {i \in DOMAIN schema.tables : schema.tables[i].name = table_name}
    IN IF hits = {} THEN NoTable
       ELSE schema.tables[CHOOSE i \in hits : \A j \in hits : i <= j]

\* A variant that also groups by a categorical primary key of the parent.
_generate_relationship_queries_any_categorical(schema) ==
    Flatten([i \in DOMAIN schema.relationships |->
        LET relationship == schema.relationships[i]
            from_table == _find_table(schema, relationship.from_table)
            to_table == _find_table(schema, relationship.to_table)
            parent == SelectCols(to_table.columns,
                                 {j \in DOMAIN to_table.columns :
                                    _is_categorical_type(to_table.columns[j].data_type)}, 1)
        IN IF from_table = NoTable \/ to_table = NoTable THEN <<>>
           ELSE << QuerySuggestion(
                      Query("join", relationship.from_table, relationship.from_column,
                            <<relationship.to_table>>, 100, FALSE),
                      <<"Join data between", relationship.from_table, relationship.to_table>>,
                      "table", <<"*">>) >>
                \o
                (IF parent # <<>>
                 THEN << QuerySuggestion(
                           Query("join_count", relationship.from_table, parent[1].name,
                                 <<relationship.to_table>>, 0, FALSE),
                           <<"Count by", relationship.from_table, parent[1].name>>,
                           "bar", <<"category", "count">>) >>
                 ELSE <<>>)])

_generate_relationship_queries(schema) ==
    Flatten([i \in DOMAIN schema.relationships |->
        LET relationship == schema.relationships[i]
            from_table == _find_table(schema, relationship.from_table)
            to_table == _find_table(schema, relationship.to_table)
            parent == CategoricalCols(to_table)
        IN IF from_table = NoTable \/ to_table = NoTable THEN <<>>
           ELSE << QuerySuggestion(
                      Query("join", relationship.from_table, relationship.from_column,
                            <<relationship.to_table>>, 100, FALSE),
                      <<"Join data between", relationship.from_table, relationship.to_table>>,
                      "table", <<"*">>) >>
                \o
                (IF parent # <<>>
                 THEN << QuerySuggestion(
                           Query("join_count", relationship.from_table, parent[1].name,
                                 <<relationship.to_table>>, 0, FALSE),
                           <<"Count by", relationship.from_table, parent[1].name>>,
                           "bar", <<"category", "count">>) >>
                 ELSE <<>>)])

\* A variant whose numeric columns include the primary key.
_generate_time_series_queries_with_keys(schema) ==
    Flatten([i \in DOMAIN schema.tables |->
        LET table == schema.tables[i]
            date_cols == DateCols(table)
            num == Take(SelectCols(table.columns,
                                   {j \in DOMAIN table.columns :
                                      _is_numeric_type(table.columns[j].data_type)}, 1), 2)
        IN IF date_cols = <<>> THEN <<>>
           ELSE << QuerySuggestion(
                      Query("daily_count", table.name, date_cols[1].name, <<>>, 0, FALSE),
                      <<"Daily counts over time", table.name>>, "line",
                      <<"date", "count">>) >>
                \o
                [j \in DOMAIN num |->
                    QuerySuggestion(
                      Query("trend", table.name, num[j].name, <<>>, 0, FALSE),
                      <<"Trend over time", num[j].name, table.name>>, "line",
                      <<"date", "avg_value", "min_value", "max_value">>)]])

_generate_time_series_queries(schema) ==
    Flatten([i \in DOMAIN schema.tables |->
        LET table == schema.tables[i]
            date_cols == DateCols(table)
            num == Take(NumericCols(table), 2)
        IN IF date_cols = <<>> THEN <<>>
           ELSE << QuerySuggestion(
                      Query("daily_count", table.name, date_cols[1].name, <<>>, 0, FALSE),
                      <<"Daily counts over time", table.name>>, "line",
                      <<"date", "count">>) >>
                \o
                [j \in DOMAIN num |->
                    QuerySuggestion(
                      Query("trend", table.name, num[j].name, <<>>, 0, FALSE),
                      <<"Trend over time", num[j].name, table.name>>, "line",
                      <<"date", "avg_value", "min_value", "max_value">>)]])

_generate_aggregation_queries(schema) ==
    Flatten([i \in DOMAIN schema.tables |->
        LET table == schema.tables[i]
            num == Take(NumericCols(table), 5)
        IN IF num = <<>> THEN <<>>
           ELSE << QuerySuggestion(
                      Query("summary", table.name, None, <<>>, 0, FALSE),
                      <<"Summary statistics for", table.name>>, "table",
                      Flatten([j \in DOMAIN num |->
                                  << <<"avg", num[j].name>>, <<"min", num[j].name>>,
                                     <<"max", num[j].name>> >>])) >>])

DefaultIntents == <<"overview", "distributions", "relationships", "time_series">>

IntentQueries(schema, intent) ==
    CASE intent = "overview" -> _generate_overview_queries(schema)
      [] intent = "distributions" -> _generate_distribution_queries(schema)
      [] intent = "relationships" -> _generate_relationship_queries(schema)
      [] intent = "time_series" -> _generate_time_series_queries(schema)
      [] intent = "aggregations" -> _generate_aggregation_queries(schema)
      [] OTHER -> <<>>

\* A variant whose default is the overview alone.
generate_suggestions_overview_default(schema, visualization_intents) ==
    LET intents == IF visualization_intents = <<>> THEN <<"overview">>
                   ELSE visualization_intents
    IN Flatten([i \in DOMAIN intents |-> IntentQueries(schema, intents[i])])

\* visualization_intents None and [] are both <<>> here: "if not visualization_intents"
generate_suggestions(schema, visualization_intents) ==
    LET intents == IF visualization_intents = <<>> THEN DefaultIntents
                   ELSE visualization_intents
    IN Flatten([i \in DOMAIN intents |-> IntentQueries(schema, intents[i])])

----------------------------------------------------------------------------
(* The language-model collaborator.                                        *)
(* An exchange is what one HTTP request to Ollama comes to: kind is        *)
(* timeout, connection_error, http_error (raise_for_status), api_error     *)
(* (an "error" key in the reply), empty, or text.  A text is kept by what  *)
(* the callers test of it: starts_with_error (it starts with "Error:"),    *)
(* body (json: the {...} regex matches and json.loads succeeds; badjson:   *)
(* it matches and json.loads fails; sql: no braces, a SELECT ...; span;    *)
(* prose: neither), obj (the decoded JSON object) and sql (the query).     *)

NoQuery == Query("none", None, None, <<>>, 0, FALSE)

\* A decoded JSON object: keys present, and the values the planner reads.
\* business_domain / key_entities: "None" when absent, "#malformed" for a
\* value of the wrong type (not a string / not a list of strings).
JsonObject(keys, q, domain, entities) ==
    [keys |-> keys, query |-> q, business_domain |-> domain, key_entities |-> entities]

NoObject == JsonObject({}, NoQuery, None, None)

\* A text read as DDL: len is len(text), words the words the safety regexes
\* scan (separated by single spaces, on one line), statements what
\* sqlglot.parse yields for it.
DdlText(words, statements) == [len |-> Len(words), words |-> words, statements |-> statements]

NoDdl == DdlText(<<>>, <<>>)

\* ddl is the reply read as DDL, for the caller that parses it.
Text(err, body, obj, q) ==
    [starts_with_error |-> err, body |-> body, obj |-> obj, sql |-> q, ddl |-> NoDdl]

ErrorText == Text(TRUE, "prose", NoObject, NoQuery)

Exchange(kind, text) == [kind |-> kind, text |-> text]

\* OllamaConnector.generate, for a non-empty prompt
OllamaConnector_generate(exchange) ==
    CASE exchange.kind = "timeout" -> ErrorText
      [] exchange.kind = "connection_error" -> ErrorText
      [] exchange.kind = "http_error" -> ErrorText
      [] exchange.kind = "api_error" ->
            [Text(FALSE, "prose", NoObject, NoQuery) EXCEPT !.ddl = exchange.text.ddl]
      [] exchange.kind = "empty" -> ErrorText
      [] OTHER -> exchange.text

\* sql = ' '.join(sql.split()); sql.rstrip(';') + ';'
_clean_sql(q) == [q EXCEPT !.terminated = TRUE]

DefaultAnalysis ==
    JsonObject({"business_domain", "key_entities", "metrics", "insights", "suggested_queries"},
               NoQuery, "unknown", "list")

analyze_schema(exchange) ==
    LET response == OllamaConnector_generate(exchange)
    IN IF response.body = "json" THEN response.obj ELSE DefaultAnalysis

\* The result dictionary of generate_sql_query.
ErrorResult == JsonObject({"error"}, NoQuery, None, None)

generate_sql_query(exchange) ==
    LET response == OllamaConnector_generate(exchange)
    IN CASE response.body = "json" ->
                IF "query" \in response.obj.keys
                THEN [response.obj EXCEPT !.query = _clean_sql(@)]
                ELSE response.obj
         [] response.body = "badjson" -> ErrorResult
         [] response.body = "sql" ->
                JsonObject({"query", "description", "intent_type", "visualization_hint"},
                           _clean_sql(response.sql), None, None)
         [] OTHER -> ErrorResult

explain_query(exchange) ==
    LET response == OllamaConnector_generate(exchange)
    IN IF response.starts_with_error THEN "This query retrieves data from the database."
       ELSE "llm explanation"

----------------------------------------------------------------------------
(* SQLIntelligenceAgent: the LLM-assisted planner (master-query mode).     *)
(* confidence is kept in tenths: 8 is 0.8, 3 is 0.3, 1 is 0.1.             *)

QueryPlan(q, d, v, conf, expl, used, cols) ==
    [query |-> q, description |-> d, intent |-> "overview", visualization_type |-> v,
     confidence |-> conf, explanation |-> expl, tables_used |-> used,
     expected_columns |-> cols, result_key |-> None, metadata |-> None]

\* A variant that reports every column as nullable.
_schema_to_dict_all_nullable(schema) ==
    [tables |->
        [i \in DOMAIN schema.tables |->
            LET table == schema.tables[i] IN
            [name |-> table.name,
             columns |-> [j \in DOMAIN table.columns |->
                            LET col == table.columns[j] IN
                            [name |-> col.name, type |-> col.data_type,
                             nullable |-> TRUE,
                             primary_key |-> col.is_primary_key,
                             foreign_key |-> col.is_foreign_key,
                             unique |-> FALSE,
                             default |-> col.default_value]],
             primary_keys |-> table.primary_keys,
             foreign_keys |-> table.foreign_keys,
             indexes |-> table.indexes]],
     relationships |->
        [i \in DOMAIN schema.relationships |->
            LET rel == schema.relationships[i] IN
            [from_table |-> rel.from_table, from_column |-> rel.from_column,
             to_table |-> rel.to_table, to_column |-> rel.to_column,
             relationship_type |-> rel.type]]]

_schema_to_dict(schema) ==
    [tables |->
        [i \in DOMAIN schema.tables |->
            LET table == schema.tables[i] IN
            [name |-> table.name,
             columns |-> [j \in DOMAIN table.columns |->
                            LET col == table.columns[j] IN
                            [name |-> col.name, type |-> col.data_type,
                             nullable |-> col.is_nullable,
                             primary_key |-> col.is_primary_key,
                             foreign_key |-> col.is_foreign_key,
                             unique |-> FALSE,
                             default |-> col.default_value]],
             primary_keys |-> table.primary_keys,
             foreign_keys |-> table.foreign_keys,
             indexes |-> table.indexes]],
     relationships |->
        [i \in DOMAIN schema.relationships |->
            LET rel == schema.relationships[i] IN
            [from_table |-> rel.from_table, from_column |-> rel.from_column,
             to_table |-> rel.to_table, to_column |-> rel.to_column,
             relationship_type |-> rel.type]]]

\* A variant that gives every fallback plan the confidence 0.3.
_create_fallback_query_flat(schema) ==
    IF schema.tables = <<>>
    THEN QueryPlan(Query("select1", None, None, <<>>, 0, TRUE), <<"Fallback query">>,
                   "table", 3, "Could not generate query", <<>>, <<>>)
    ELSE LET table == schema.tables[1] IN
         QueryPlan(Query("select_star", table.name, None, <<>>, 10, TRUE),
                   <<"Sample data from", table.name>>, "table", 3,
                   "Shows first 10 rows", <<table.name>>,
                   [j \in DOMAIN table.columns |-> table.columns[j].name])

_create_fallback_query(schema) ==
    IF schema.tables = <<>>
    THEN QueryPlan(Query("select1", None, None, <<>>, 0, TRUE), <<"Fallback query">>,
                   "table", 1, "Could not generate query", <<>>, <<>>)
    ELSE LET table == schema.tables[1] IN
         QueryPlan(Query("select_star", table.name, None, <<>>, 10, TRUE),
                   <<"Sample data from", table.name>>, "table", 3,
                   "Shows first 10 rows", <<table.name>>,
                   [j \in DOMAIN table.columns |-> table.columns[j].name])

\* The outcome of a call: the value returned, the exception raised ("None"
\* when it returned) and the exchanges with the language model it made.
Outcome(value, exc, log) == [value |-> value, raised |-> exc, log |-> log]

\* A variant that does not test the result for an "error" key.
generate_query_from_intent_unchecked(schema, exchanges) ==
    LET result == generate_sql_query(exchanges.sql)
    IN Outcome(
         QueryPlan(IF "query" \in result.keys THEN result.query
                   ELSE Query("empty", None, None, <<>>, 0, FALSE),
                   <<"llm description">>, "table",
                   IF "query" \in result.keys THEN 8 ELSE 3,
                   explain_query(exchanges.explain), <<>>, <<>>),
         None, <<exchanges.sql, exchanges.explain>>)

\* exchanges.sql and exchanges.explain are the replies to the two requests.
generate_query_from_intent(schema, exchanges) ==
    CHOOSE query_plan \in
        { IF "error" \in result.keys
          THEN Outcome(_create_fallback_query(schema), None, <<exchanges.sql>>)
          ELSE Outcome(
                 QueryPlan(IF "query" \in result.keys THEN result.query
                           ELSE Query("empty", None, None, <<>>, 0, FALSE),
                           <<"llm description">>, "table",
                           IF "query" \in result.keys THEN 8 ELSE 3,
                           explain_query(exchanges.explain), <<>>, <<>>),
                 None, <<exchanges.sql, exchanges.explain>>) :
          result \in {generate_sql_query(exchanges.sql)} } : TRUE

\* analysis["business_domain"].lower() needs a string
analyze_business_context(exchange) ==
    LET analysis == analyze_schema(exchange)
    IN IF analysis.business_domain = "#malformed"
       THEN Outcome(analysis, "AttributeError", <<exchange>>)
       ELSE IF analysis.business_domain \notin {None, ""}
       THEN Outcome([analysis EXCEPT !.keys = @ \cup {"recommended_dashboards"}],
                    None, <<exchange>>)
       ELSE Outcome(analysis, None, <<exchange>>)

\* hashlib.md5(json.dumps(schema, sort_keys=True)): equal for equal
\* dictionaries, and taken to differ for different ones
_hash_schema(schema) == <<"md5", schema>>

\* self.schema_cache[schema_hash] = {"schema": schema, "analysis": analysis}
CacheStore(cache, schema, analysis) ==
    [h \in DOMAIN cache \cup {_hash_schema(schema)} |->
        IF h = _hash_schema(schema) THEN [schema |-> schema, analysis |-> analysis]
        ELSE cache[h]]

\* A variant without the early return for a schema without tables.
_generate_master_query_unguarded(schema, analysis, visualization_intents, exchanges) ==
    IF "key_entities" \in analysis.keys /\ analysis.key_entities # "list"
    THEN Outcome(_create_fallback_query(schema), "TypeError", <<>>)
    ELSE LET made == generate_query_from_intent(schema, exchanges)
         IN Outcome([made.value EXCEPT
                       !.description = <<"Comprehensive dataset for D3.js dashboard">>,
                       !.visualization_type = "d3-multi",
                       !.metadata = "master_query",
                       !.result_key = "master_dataset"],
                    None, made.log)

\* ', '.join(analysis.get('key_entities', [])) needs a list of strings
_generate_master_query(schema, analysis, visualization_intents, exchanges) ==
    IF schema.tables = <<>>
    THEN Outcome(_create_fallback_query(schema), None, <<>>)
    ELSE IF "key_entities" \in analysis.keys /\ analysis.key_entities # "list"
    THEN Outcome(_create_fallback_query(schema), "TypeError", <<>>)
    ELSE CHOOSE query_plan \in
           { Outcome([made.value EXCEPT
                        !.description = <<"Comprehensive dataset for D3.js dashboard">>,
                        !.visualization_type = "d3-multi",
                        !.metadata = "master_query",
                        !.result_key = "master_dataset"],
                     None, made.log) :
             made \in {generate_query_from_intent(schema, exchanges)} } : TRUE

\* return [master_query], or the exception that leaves the call
MasterQueryList(analysed, master) ==
    IF master.raised # None
    THEN Outcome(<<>>, master.raised, analysed.log \o master.log)
    ELSE Outcome(<<master.value>>, None, analysed.log \o master.log)

suggest_queries_for_schema(schema, visualization_intents, exchanges) ==
    CHOOSE query_plans_returned \in
        { IF analysed.raised # None THEN Outcome(<<>>, analysed.raised, analysed.log)
          ELSE MasterQueryList(analysed,
                  _generate_master_query(schema, analysed.value, visualization_intents,
                                         exchanges)) :
          analysed \in {analyze_business_context(exchanges.analysis)} } : TRUE

----------------------------------------------------------------------------
(* LLMAgent (llm.py): single-shot master query from the DDL text.          *)
(* tables are the names the CREATE TABLE regex finds in the text.          *)

\* A variant that joins every further table, not only the second.
_generate_fallback_query_join_all(tables) ==
    IF tables = <<>> THEN Query("select1", None, None, <<>>, 0, TRUE)
    ELSE Query("select_star", tables[1], None, Tail(tables), 10000, TRUE)

_generate_fallback_query(tables) ==
    IF tables = <<>> THEN Query("select1", None, None, <<>>, 0, TRUE)
    ELSE IF Len(tables) = 1 THEN Query("select_star", tables[1], None, <<>>, 10000, TRUE)
    ELSE Query("select_star", tables[1], None, <<tables[2]>>, 10000, TRUE)

\* the reply text, with the code fences removed
ReturnedSql(text) ==
    IF text.body = "sql" THEN text.sql
    ELSE IF text.body = "json" /\ "query" \in text.obj.keys THEN text.obj.query
    ELSE NoQuery

\* 'SELECT' in sql.upper() and 'FROM' in sql.upper()
LooksLikeSql(text) ==
    /\ ReturnedSql(text).shape # "none"
    /\ ReturnedSql(text).from_table # None

\* re.finditer(r'CREATE\s+TABLE\s+...(\w+)', ddl): the names in text order
_extract_table_names(statements) ==
    LET Names[i \in 0..Len(statements)] ==
            IF i = 0 THEN <<>>
            ELSE IF statements[i].k = "Create" THEN Append(Names[i - 1], statements[i].name)
            ELSE Names[i - 1]
    IN Names[Len(statements)]

\* exchange.kind: connection_error (requests raises), http_error (status
\* code other than 200), api_error / empty (no 'response' text), or text.
generate_master_query(statements, exchange) ==
    LET tables == _extract_table_names(statements)
    IN IF exchange.kind = "text" /\ LooksLikeSql(exchange.text)
       THEN ReturnedSql(exchange.text)
       ELSE _generate_fallback_query(tables)

----------------------------------------------------------------------------
(* The validators and DDLParserMCPServer.handle_request.                   *)

\* self.max_input_size
max_input_size == 100000

\* ddl.upper(), over the words of the model
Upper(w) ==
    CASE w = "create" -> "CREATE"
      [] w = "table" -> "TABLE"
      [] w = "grant" -> "GRANT"
      [] w = "granted" -> "GRANTED"
      [] w = "delete" -> "DELETE"
      [] w = "from" -> "FROM"
      [] w = "update" -> "UPDATE"
      [] w = "set" -> "SET"
      [] w = "all" -> "ALL"
      [] OTHER -> w

\* The exception class raised, "None" when the validator returns.
validate_input_size(input_str, max_size) ==
    IF input_str.len > max_size THEN "ValidationError" ELSE None

\* re.search(pattern, ddl_upper) for the patterns of dangerous_patterns
MatchesDangerousPattern(ddl_upper) ==
    LET Has(x) == \E i \in DOMAIN ddl_upper : ddl_upper[i] = x
        Adjacent(x, y) ==
            \E i \in DOMAIN ddl_upper :
                i + 1 \in DOMAIN ddl_upper /\ ddl_upper[i] = x /\ ddl_upper[i + 1] = y
    IN \/ Adjacent("DROP", "DATABASE")
       \/ Has("TRUNCATE")
       \/ Adjacent("DELETE", "FROM")
       \/ \E i, j \in DOMAIN ddl_upper :
             j >= i + 2 /\ ddl_upper[i] = "UPDATE" /\ ddl_upper[j] = "SET"
       \/ Adjacent("INSERT", "INTO")
       \/ Has("EXEC")
       \/ Has("EXECUTE")
       \/ Has("GRANT")
       \/ Has("REVOKE")

validate_ddl_safety(input_str) ==
    IF MatchesDangerousPattern([i \in DOMAIN input_str.words |-> Upper(input_str.words[i])])
    THEN "SecurityError" ELSE None

\* str(e) / e.message of the exception
MessageOf(exc) ==
    CASE exc = "ValidationError" -> "Input too large"
      [] exc = "SecurityError" -> "DDL contains potentially dangerous operations"
      [] exc = "ParsingError" -> "Failed to parse DDL"
      [] OTHER -> exc

DDLParserRequest(input, format, database_type, visualization_intents) ==
    [input |-> input, format |-> format, database_type |-> database_type,
     visualization_intents |-> visualization_intents]

NoRequest == DDLParserRequest(NoDdl, None, None, <<>>)

\* schema is NoSchema and suggested_queries is <<>> where the response
\* leaves them None.
NoResponse ==
    [status |-> "pending", error |-> <<>>, schema |-> NoSchema, suggested_queries |-> <<>>]

\* DDLParserResponse(status="error", error=...): error is the message, or
\* the prefix and the message for "<prefix>: <message>".
ErrorResponse(error) ==
    [status |-> "error", error |-> error, schema |-> NoSchema, suggested_queries |-> <<>>]

\* DDLParserResponse(status="success", schema=..., suggested_queries=..., ...)
SuccessResponse(schema, suggested_queries) ==
    [status |-> "success", error |-> <<>>, schema |-> schema,
     suggested_queries |-> suggested_queries]

\* What a handler comes to: the response returned, or the exception that
\* leaves it, and the calls made so far.
Handled(resp, exc, made) == [response |-> resp, raised |-> exc, calls |-> made]

Generates(log) == [i \in DOMAIN log |-> "OllamaConnector.generate"]

\* The exception that leaves _create_user_instructions: the header joins
\* analysis['key_entities'], and the query section reads query.metadata,
\* which QuerySuggestion does not declare.
_create_user_instructions(query_suggestions, analysis) ==
    IF "key_entities" \in analysis.keys /\ analysis.key_entities = "#malformed"
    THEN "TypeError"
    ELSE IF query_suggestions # <<>> THEN "AttributeError"
    ELSE None

\* _handle_ddl_input from the analysis on, for a schema with tables.
\* exchanges.context answers the schema analysis made by the handler
\* itself; analysis, sql and explain those of suggest_queries_for_schema.
AnalyzeAndSuggest(req, exchanges, made, schema) ==
    CHOOSE handled \in
        { LET c3 == made \o Generates(analysis.log)
              c4 == c3 \o Generates(plans.log)
              failed == _create_user_instructions(plans.value, analysis.value)
          IN IF analysis.raised # None THEN Handled(NoResponse, analysis.raised, c3)
             ELSE IF plans.raised # None THEN Handled(NoResponse, plans.raised, c4)
             ELSE IF failed # None THEN Handled(NoResponse, failed, c4)
             ELSE Handled(SuccessResponse(schema,
                              [i \in DOMAIN plans.value |->
                                  QuerySuggestion(plans.value[i].query,
                                                  plans.value[i].description,
                                                  plans.value[i].visualization_type,
                                                  plans.value[i].expected_columns)]),
                          None, c4) :
          analysis \in {analyze_business_context(exchanges.context)},
          plans \in {suggest_queries_for_schema(_schema_to_dict(schema),
                                                req.visualization_intents, exchanges)} } : TRUE

_handle_ddl_input(req, exchanges, made) ==
    LET c1 == Append(made, "validate_ddl_safety")
        unsafe == validate_ddl_safety(req.input)
        c2 == Append(c1, "DDLParser.parse")
    IN IF unsafe # None THEN Handled(NoResponse, unsafe, c1)
       ELSE CHOOSE handled \in
              { IF result.outcome = "raised" THEN Handled(NoResponse, result.error, c2)
                ELSE IF result.schema.tables = <<>>
                THEN Handled(ErrorResponse(<<"No tables found in DDL">>), None, c2)
                ELSE AnalyzeAndSuggest(req, exchanges, c2, result.schema) :
                result \in {DDLParser_parse(IF req.database_type = None THEN "sqlite"
                                            ELSE req.database_type,
                                            req.input.statements)} } : TRUE

\* except Exception as e: "Mermaid conversion failed: {str(e)}"
MermaidExcept(inner) ==
    IF inner.raised # None
    THEN Handled(ErrorResponse(<<"Mermaid conversion failed", MessageOf(inner.raised)>>),
                 None, inner.calls)
    ELSE inner

\* exchanges.mermaid answers the request that converts the diagram
_handle_mermaid_input(req, exchanges, made) ==
    CHOOSE handled \in
        { IF ddl_result.starts_with_error
          THEN Handled(ErrorResponse(<<"Could not convert Mermaid diagram to DDL">>), None,
                       Append(made, "OllamaConnector.generate"))
          ELSE MermaidExcept(
                 _handle_ddl_input([req EXCEPT !.input = ddl_result.ddl, !.format = "ddl"],
                                   exchanges, Append(made, "OllamaConnector.generate"))) :
          ddl_result \in {OllamaConnector_generate(exchanges.mermaid)} } : TRUE

\* The except clauses of handle_request without the last one: an exception
\* that is neither a ValidationError nor a ParsingError leaves the handler.
ExceptClauses_no_catch_all(handled) ==
    CASE handled.raised = None -> handled
      [] handled.raised = "ValidationError" ->
           Handled(ErrorResponse(<<"Validation error", MessageOf(handled.raised)>>),
                   handled.raised, handled.calls)
      [] handled.raised = "ParsingError" ->
           Handled(ErrorResponse(<<"Parsing error", MessageOf(handled.raised)>>),
                   handled.raised, handled.calls)
      [] OTHER -> handled

\* The except clauses of handle_request (the same in both servers).  The
\* exception caught stays recorded beside the response returned for it.
ExceptClauses(handled) ==
    CASE handled.raised = None -> handled
      [] handled.raised = "ValidationError" ->
           Handled(ErrorResponse(<<"Validation error", MessageOf(handled.raised)>>),
                   handled.raised, handled.calls)
      [] handled.raised = "ParsingError" ->
           Handled(ErrorResponse(<<"Parsing error", MessageOf(handled.raised)>>),
                   handled.raised, handled.calls)
      [] OTHER ->
           Handled(ErrorResponse(<<"Server error", MessageOf(handled.raised)>>),
                   handled.raised, handled.calls)

handle_request(req, exchanges) ==
    CHOOSE answered \in
        { ExceptClauses(handled) :
          handled \in
            { IF validate_input_size(req.input, max_input_size) # None
              THEN Handled(NoResponse, validate_input_size(req.input, max_input_size),
                           <<"validate_input_size">>)
              ELSE IF req.format = "ddl"
              THEN _handle_ddl_input(req, exchanges, <<"validate_input_size">>)
              ELSE _handle_mermaid_input(req, exchanges, <<"validate_input_size">>) } } : TRUE

\* The rule-based server of the backup tree: the same checks and parser,
\* SQLGenerator in place of the agent, and no language model.
Backup_handle_ddl_input(req, made) ==
    LET c1 == Append(made, "validate_ddl_safety")
        unsafe == validate_ddl_safety(req.input)
        c2 == Append(c1, "DDLParser.parse")
    IN IF unsafe # None THEN Handled(NoResponse, unsafe, c1)
       ELSE CHOOSE handled \in
              { IF result.outcome = "raised" THEN Handled(NoResponse, result.error, c2)
                ELSE IF result.schema.tables = <<>>
                THEN Handled(ErrorResponse(<<"No tables found in DDL">>), None, c2)
                ELSE Handled(SuccessResponse(result.schema,
                                 generate_suggestions(result.schema,
                                                      req.visualization_intents)),
                             None, c2) :
                result \in {DDLParser_parse(IF req.database_type = None THEN "sqlite"
                                            ELSE req.database_type,
                                            req.input.statements)} } : TRUE

\* A placeholder: success with instructions, and neither schema nor queries.
Backup_handle_mermaid_input(req, made) ==
    Handled(SuccessResponse(NoSchema, <<>>), None, made)

Backup_handle_request(req) ==
    CHOOSE answered \in
        { ExceptClauses(handled) :
          handled \in
            { IF validate_input_size(req.input, max_input_size) # None
              THEN Handled(NoResponse, validate_input_size(req.input, max_input_size),
                           <<"validate_input_size">>)
              ELSE IF req.format = "ddl"
              THEN Backup_handle_ddl_input(req, <<"validate_input_size">>)
              ELSE Backup_handle_mermaid_input(req, <<"validate_input_size">>) } } : TRUE

----------------------------------------------------------------------------
(* The trip planner's MCPServer (src/trip_planner_mcp).                    *)

\* A JSON text as process_json_request reads it: its length, whether it
\* is empty or all whitespace, and what json.loads makes of it.  depth is
\* "deep" when the text nests arrays or objects beyond the interpreter's
\* recursion limit before any syntax error.
JsonText(len, blank, well_formed, depth, value) ==
    [len |-> len, blank |-> blank, well_formed |-> well_formed, depth |-> depth,
     value |-> value]

\* a member of a JSON object that is not there
Absent == [kind |-> "absent", len |-> 0, stripped |-> 0]

\* a JSON string of len characters, stripped of which are left by strip()
JsonString(len, stripped) == [kind |-> "str", len |-> len, stripped |-> stripped]

JsonNumber == [kind |-> "int", len |-> 0, stripped |-> 0]

\* verbose is FALSE when the object has no such member
JsonObjectValue(task, query, verbose) ==
    [kind |-> "object", task |-> task, query |-> query, verbose |-> verbose]

JsonArrayValue == [kind |-> "array", task |-> None, query |-> Absent, verbose |-> FALSE]

NoValue == [kind |-> "none", task |-> None, query |-> Absent, verbose |-> FALSE]

\* json.loads(json_str.strip()): the value, or the exception raised
json_loads(text) ==
    IF text.depth = "deep" THEN [raised |-> "RecursionError", value |-> NoValue]
    ELSE IF ~text.well_formed THEN [raised |-> "JSONDecodeError", value |-> NoValue]
    ELSE [raised |-> None, value |-> text.value]

MCPRequest(task, query, verbose) == [task |-> task, query |-> query, verbose |-> verbose]

NoMCPRequest == MCPRequest(None, Absent, FALSE)

\* MCPRequest(**request_data): pydantic's validation of the fields
MCPRequest_validate(request_data) ==
    IF request_data.task = "nl_query" /\ request_data.query.kind = "str"
    THEN [raised |-> None,
          value |-> MCPRequest(request_data.task, request_data.query,
                               request_data.verbose)]
    ELSE [raised |-> "ValidationError", value |-> NoMCPRequest]

\* MCPResponse(status=..., error=...): error is the message, or the prefix
\* and the detail of "<prefix>: <detail>"
MCPResponse(status, error) == [status |-> status, error |-> error]

\* model_dump_json: the JSON document, with its keys
model_dump_json(response, exclude_none) ==
    [keys |-> IF exclude_none
              THEN IF response.status = "success"
                   THEN {"status", "natural"}
                   ELSE {"status", "error"}
              ELSE {"status", "intent", "data", "natural", "error", "metadata"},
     status |-> response.status,
     error |-> response.error]

NoDocument == [keys |-> {}, status |-> None, error |-> <<>>]

NoAgent == [constructed |-> FALSE, verbose |-> FALSE]

\* TripPlannerAgent(ollama_model=..., verbose=verbose)
TripPlannerAgent(verbose) == [constructed |-> TRUE, verbose |-> verbose]

\* agent.process_query(query): data with or without an "error" key; answer
\* is what the language model and the tools come to
process_query(query_len, answer) ==
    IF query_len > 1000 THEN "error" ELSE answer

\* What handle_request comes to: the response, the agent the server keeps
\* and the agent calls made.
TripHandled(resp, agent, made) == [response |-> resp, agent |-> agent, calls |-> made]

\* MCPServer.handle_request(request), for a request that passed
\* MCPRequest's validation; init says whether constructing the agent
\* raises.
MCPServer_handle_request(req, agent, init, answer) ==
    IF req.task # "nl_query"
    THEN TripHandled(MCPResponse("error", <<"Unknown task type", req.task>>), agent, <<>>)
    ELSE IF req.query.len = 0
    THEN TripHandled(MCPResponse("error", <<"Query is required for nl_query task">>),
                     agent, <<>>)
    ELSE IF req.query.stripped = 0
    THEN TripHandled(MCPResponse("error", <<"Query cannot be empty">>), agent, <<>>)
    ELSE IF req.query.stripped > 2000
    THEN TripHandled(MCPResponse("error", <<"Query too long (max 2000 characters)">>),
                     agent, <<>>)
    ELSE LET fresh == ~agent.constructed \/ agent.verbose # req.verbose
             made == IF fresh THEN <<"TripPlannerAgent">> ELSE <<>>
             kept == IF fresh THEN TripPlannerAgent(req.verbose) ELSE agent
         IN IF fresh /\ init = "raises"
            THEN TripHandled(MCPResponse("error", <<"Failed to initialize agent", init>>),
                             agent, made)
            ELSE IF process_query(req.query.stripped, answer) = "error"
            THEN TripHandled(MCPResponse("error", <<"agent error">>), kept,
                             Append(made, "process_query"))
            ELSE TripHandled(MCPResponse("success", <<>>), kept,
                             Append(made, "process_query"))

\* What process_json_request comes to: the document returned.
TripReturned(doc, agent, made) == [document |-> doc, agent |-> agent, calls |-> made]

\* MCPServer.process_json_request(json_str)
MCPServer_process_json_request(text, agent, init, answer) ==
    IF text.blank
    THEN TripReturned(model_dump_json(MCPResponse("error", <<"Empty JSON request">>), FALSE),
                      agent, <<>>)
    ELSE IF text.len > 10000
    THEN TripReturned(model_dump_json(
                          MCPResponse("error", <<"JSON request too large (max 10KB)">>), FALSE),
                      agent, <<>>)
    ELSE LET request_data == json_loads(text)
             req == MCPRequest_validate(request_data.value)
         IN IF request_data.raised = "JSONDecodeError"
            THEN TripReturned(model_dump_json(
                                  MCPResponse("error", <<"Invalid JSON format",
                                                         request_data.raised>>), FALSE),
                              agent, <<>>)
            ELSE IF request_data.raised # None
            THEN TripReturned(model_dump_json(
                                  MCPResponse("error",
                                              <<"Unexpected error processing request",
                                                request_data.raised>>), FALSE),
                              agent, <<>>)
            ELSE IF request_data.value.kind # "object"
            THEN TripReturned(model_dump_json(
                                  MCPResponse("error", <<"Request must be a JSON object">>),
                                  FALSE),
                              agent, <<>>)
            ELSE IF req.raised # None
            THEN TripReturned(model_dump_json(
                                  MCPResponse("error", <<"Request validation failed",
                                                         req.raised>>), FALSE),
                              agent, <<>>)
            ELSE LET handled == MCPServer_handle_request(req.value, agent, init, answer)
                 IN TripReturned(model_dump_json(handled.response, TRUE),
                                 handled.agent, handled.calls)

----------------------------------------------------------------------------
(* ParseSpec: DDLParser(dialect).parse(ddl) over bounded DDL inputs.       *)

\* Largest number of statements in a DDL text of the model.
MaxStatements == 2

\* a and b are the tables a DDL of the model may define; c is only ever
\* referenced.
DefinedNames == {"a", "b"}

----------------------------------------------------------------------------
(* The text of a reply, for the extraction of its JSON object.  A reply is *)
(* a sequence of tokens: "{" and "}", member (the text of one or more      *)
(* "key": value members without a brace, here "query": "SELECT ..."), key  *)
(* (the text "nested": that an object value follows), word (free text      *)
(* without a brace) and select (a SELECT ...; span outside any brace).     *)

ResponseTokens == {"{", "}", "member", "key", "word", "select"}

Positions(response, token) == {i \in DOMAIN response : response[i] = token}

Least(S) == CHOOSE x \in S : \A y \in S : x <= y

Greatest(S) == CHOOSE x \in S : \A y \in S : y <= x

NoMatch == <<>>

\* re.search(r'\{.*\}', response, re.DOTALL).group(): the leftmost "{" and,
\* the star being greedy, the last "}" after it
re_search_braces(response) ==
    LET opens == Positions(response, "{")
        closes == Positions(response, "}")
    IN IF opens = {} \/ closes = {} THEN NoMatch
       ELSE IF Least(opens) < Greatest(closes)
            THEN SubSeq(response, Least(opens), Greatest(closes))
            ELSE NoMatch

\* json.loads accepts the text: an object that is empty, holds members, or
\* holds one nested object
RECURSIVE json_valid(_)
json_valid(text) ==
    /\ Len(text) >= 2
    /\ text[1] = "{"
    /\ text[Len(text)] = "}"
    /\ LET inner == SubSeq(text, 2, Len(text) - 1)
       IN \/ inner = <<>>
          \/ inner = <<"member">>
          \/ inner # <<>> /\ inner[1] = "key" /\ json_valid(Tail(inner))

\* the query a member gives, and the query of a select span
MemberQuery == Query("llm", "a", None, <<>>, 0, FALSE)

SelectQuery == Query("llm", "b", None, <<>>, 0, FALSE)

\* json.loads of a text it accepts
json_loads_object(text) ==
    LET inner == SubSeq(text, 2, Len(text) - 1)
    IN IF inner = <<>> THEN NoObject
       ELSE IF inner = <<"member">> THEN JsonObject({"query"}, MemberQuery, None, None)
       ELSE JsonObject({"nested"}, NoQuery, None, None)

\* The reply as its readers see it: the {...} regex and json.loads, then the
\* (SELECT.*?;) regex.
ResponseText(response) ==
    LET json_match == re_search_braces(response)
    IN IF json_match # NoMatch
       THEN IF json_valid(json_match)
            THEN Text(FALSE, "json", json_loads_object(json_match), NoQuery)
            ELSE Text(FALSE, "badjson", NoObject, NoQuery)
       ELSE IF Positions(response, "select") # {}
            THEN Text(FALSE, "sql", NoObject, SelectQuery)
            ELSE Text(FALSE, "prose", NoObject, NoQuery)

\* what the HTTP request comes to for a reply
ResponseExchange(response) ==
    IF response = <<>> THEN Exchange("empty", ErrorText)
    ELSE Exchange("text", ResponseText(response))

\* No reply has been read.
ExtractIdle ==
    /\ response_tokens = <<>>
    /\ extract_call = "none"
    /\ extract_result = NoObject

----------------------------------------------------------------------------
(* QueryExecutor.  The connection is "None", "open" or "closed" (an object *)
(* whose close() has been called); a query text is one the database runs   *)
(* or one it rejects.                                                      *)

QueryExecutionConfig(database_type, combine_results) ==
    [database_type |-> database_type, combine_results |-> combine_results]

QueryWithMetadata(query, description, result_key, visualization_type) ==
    [query |-> query, description |-> description, result_key |-> result_key,
     visualization_type |-> visualization_type]

SupportedDatabaseTypes == {"sqlite", "postgres", "mysql"}

\* QueryExecutor.connect: reachable says whether the driver's connect()
\* returns; an exception leaves self.connection as it was
QueryExecutor_connect(conn, config, reachable) ==
    IF config.database_type \notin SupportedDatabaseTypes
    THEN [connection |-> conn, raised |-> "ValueError: Unsupported database type"]
    ELSE IF reachable THEN [connection |-> "open", raised |-> None]
    ELSE [connection |-> conn, raised |-> "driver error: connect"]

\* QueryExecutor.disconnect: close() is called, self.connection is kept
QueryExecutor_disconnect(conn) ==
    IF conn # None THEN "closed" ELSE conn

GoodSql == "SELECT 1;"

BadSql == "SELEC;"

\* cursor.fetchall() for a query the database runs
Rows(query) == <<"row">>

\* QueryExecutor.execute_query: executed says whether cursor.execute ran
QueryExecutor_execute_query(conn, query) ==
    IF conn = None
    THEN [raised |-> "RuntimeError: Not connected to database",
          results |-> <<>>, executed |-> FALSE]
    ELSE IF conn = "closed"
    THEN [raised |-> "driver error: closed connection", results |-> <<>>,
          executed |-> FALSE]
    ELSE IF query = BadSql
    THEN [raised |-> "driver error: query", results |-> <<>>, executed |-> TRUE]
    ELSE [raised |-> None, results |-> Rows(query), executed |-> TRUE]

\* An entry of combined_results["data"]: kind is combined (the dictionary
\* with the results), rows (the results alone) or error.
DataEntry(kind, description, visualization_type, row_count, results, error, query) ==
    [kind |-> kind, description |-> description,
     visualization_type |-> visualization_type, row_count |-> row_count,
     results |-> results, error |-> error, query |-> query]

NoEntry == DataEntry("none", None, None, 0, <<>>, None, None)

QueryInfo(description, query, result_key, row_count) ==
    [description |-> description, query |-> query, result_key |-> result_key,
     row_count |-> row_count]

NoData == [k \in {} |-> NoEntry]

\* combined_results["data"][key] = entry
SetItem(data, key, entry) ==
    [k \in DOMAIN data \cup {key} |-> IF k = key THEN entry ELSE data[k]]

\* metadata.generated_at, a timestamp, is left out
CombinedResults(database_type, query_count, data, queries) ==
    [metadata |-> [database_type |-> database_type, query_count |-> query_count],
     data |-> data, queries |-> queries]

NoResults == CombinedResults(None, 0, NoData, <<>>)

\* the loop of execute_queries from query i on; attempted are the queries
\* handed to execute_query, executed those that reached cursor.execute
RECURSIVE ExecuteQueriesLoop(_, _, _, _, _)
ExecuteQueriesLoop(conn, config, queries, i, acc) ==
    IF i > Len(queries) THEN acc
    ELSE LET query_meta == queries[i]
             r == QueryExecutor_execute_query(conn, query_meta.query)
             entry == IF r.raised # None
                      THEN DataEntry("error", query_meta.description, None, 0, <<>>,
                                     r.raised, query_meta.query)
                      ELSE IF config.combine_results
                      THEN DataEntry("combined", query_meta.description,
                                     query_meta.visualization_type, Len(r.results),
                                     r.results, None, None)
                      ELSE DataEntry("rows", None, None, 0, r.results, None, None)
         IN ExecuteQueriesLoop(conn, config, queries, i + 1,
              [value |-> [acc.value EXCEPT
                            !.data = SetItem(@, query_meta.result_key, entry),
                            !.queries = IF r.raised # None THEN @
                                        ELSE Append(@, QueryInfo(query_meta.description,
                                                                 query_meta.query,
                                                                 query_meta.result_key,
                                                                 Len(r.results)))],
               attempted |-> Append(acc.attempted, query_meta.query),
               executed |-> IF r.executed THEN Append(acc.executed, query_meta.query)
                            ELSE acc.executed])

\* A variant that counts the queries that succeeded.
QueryExecutor_execute_queries_counting_successes(conn, config, queries) ==
    LET done == ExecuteQueriesLoop(conn, config, queries, 1,
                    [value |-> CombinedResults(config.database_type, Len(queries),
                                               NoData, <<>>),
                     attempted |-> <<>>, executed |-> <<>>])
    IN [done EXCEPT !.value.metadata.query_count = Len(done.value.queries)]

\* QueryExecutor.execute_queries
QueryExecutor_execute_queries(conn, config, queries) ==
    ExecuteQueriesLoop(conn, config, queries, 1,
        [value |-> CombinedResults(config.database_type, Len(queries), NoData, <<>>),
         attempted |-> <<>>, executed |-> <<>>])

\* what a call on the executor was and did
ExecCall(op, error, before, submitted, attempted, executed, results, value) ==
    [op |-> op, raised |-> error, before |-> before, submitted |-> submitted,
     attempted |-> attempted, executed |-> executed, results |-> results,
     value |-> value]

NoExecCall == ExecCall("none", None, None, <<>>, <<>>, <<>>, <<>>, NoResults)

\* QueryExecutor(config): no connection, nothing called
ExecIdle ==
    /\ connection = None
    /\ exec_config = QueryExecutionConfig("sqlite", TRUE)
    /\ exec_last = NoExecCall
    /\ exec_ops = 0

ParseNodes ==
    { ColumnDef("id", INTEGER, <<PrimaryKeyColumnConstraint>>),
      ColumnDef("x", VARCHAR, <<>>),
      PrimaryKey(<<"x">>),
      ForeignKey(<<"x">>, "a", <<"id">>),
      ForeignKey(<<"x">>, "c", <<"id">>) }

\* The bodies of a CREATE TABLE: every list of at most two of the nodes.
ParseBodies ==
    {<<>>} \cup {<<e>> : e \in ParseNodes} \cup {<<e, f>> : e \in ParseNodes, f \in ParseNodes}

ParseStatements ==
    {CreateTable(n, e) : n \in DefinedNames, e \in ParseBodies}
        \cup {OtherStatement, BadStatement}

ParseDialects == {"sqlite", "PostgreSQL"}

Pending == [outcome |-> "pending", error |-> None, schema |-> NoSchema]

\* No planner has been called.
PlanIdle ==
    /\ plan_schema = NoSchema
    /\ plan_intents = <<>>
    /\ called = "none"
    /\ suggestions = <<>>
    /\ query_plans = <<>>
    /\ master_sql = NoQuery
    /\ raised = None
    /\ llm_log = <<>>

\* No request has been received.
ServerIdle ==
    /\ server_kind = "llm"
    /\ request = NoRequest
    /\ server_response = NoResponse
    /\ server_raised = None
    /\ calls = <<>>

\* _schema_to_dict has not been called.
SchemaIdle == schema_dicts = <<>>

\* SQLIntelligenceAgent(): nothing cached, nothing asked
NoCall == [entry |-> "none", schema_hash |-> <<>>, cached_before |-> FALSE, analyses |-> 0]

AgentIdle ==
    /\ schema_cache = <<>>
    /\ query_history = <<>>
    /\ analysis_requests = <<>>
    /\ agent_last = NoCall
    /\ agent_calls = 0

NoJsonText == JsonText(0, TRUE, FALSE, "shallow", NoValue)

\* MCPServer() has processed no request.
TripIdle ==
    /\ json_str = NoJsonText
    /\ json_response = NoDocument
    /\ trip_raised = None
    /\ trip_agent = NoAgent
    /\ trip_calls = <<>>
    /\ trip_requests = 0

ParseInit ==
    /\ ExtractIdle
    /\ ExecIdle
    /\ ddl \in SeqsUpTo(ParseStatements, MaxStatements)
    /\ dialect \in ParseDialects
    /\ parsed = Pending
    /\ PlanIdle
    /\ ServerIdle
    /\ SchemaIdle
    /\ TripIdle
    /\ AgentIdle

Parse ==
    /\ parsed.outcome = "pending"
    /\ parsed' = DDLParser_parse(dialect, ddl)
    /\ UNCHANGED <<extractVars, execVars, ddl, dialect, planVars, serverVars, schemaVars, tripVars, agentVars>>

ParseNext == Parse

ParseSpec == ParseInit /\ [][ParseNext]_vars

----------------------------------------------------------------------------
(* SchemaSpec: a DDL text is parsed under any dialect tag, and the server  *)
(* converts the schema to the dictionary it hands to the agent.            *)

\* Largest number of statements in a DDL text of SchemaSpec.
MaxSchemaStatements == 1

DialectTags ==
    {"sqlite", "SQLite", "postgres", "postgresql", "PostgreSQL", "mysql", "MySQL",
     "mariadb", "MariaDB", "Oracle", "oracle", ""}

SchemaInit ==
    /\ ExtractIdle
    /\ ExecIdle
    /\ ddl \in SeqsUpTo(ParseStatements, MaxSchemaStatements)
    /\ dialect \in DialectTags
    /\ parsed = Pending
    /\ PlanIdle
    /\ ServerIdle
    /\ SchemaIdle
    /\ TripIdle
    /\ AgentIdle

\* schema_dict = self._schema_to_dict(schema), after parser.parse returned
SchemaToDict ==
    /\ parsed.outcome = "returned"
    /\ schema_dicts = <<>>
    /\ schema_dicts' = <<_schema_to_dict(parsed.schema)>>
    /\ UNCHANGED <<extractVars, execVars, parseVars, planVars, serverVars, tripVars, agentVars>>

SchemaNext == Parse \/ SchemaToDict

SchemaSpec == SchemaInit /\ [][SchemaNext]_vars

----------------------------------------------------------------------------
(* TripSpec: MCPServer() processes JSON requests one after another.        *)

\* Largest number of requests one server processes.
MaxTripRequests == 2

TripQueries ==
    { Absent, JsonNumber, JsonString(0, 0), JsonString(3, 0), JsonString(16, 16),
      JsonString(1500, 1500), JsonString(2003, 2001) }

TripValues ==
    { JsonArrayValue,
      [kind |-> "string", task |-> None, query |-> Absent, verbose |-> FALSE] }
    \cup { JsonObjectValue(t, q, v) :
             t \in {None, "nl_query", "plan"}, q \in TripQueries, v \in BOOLEAN }

\* Texts that are empty or all whitespace, and texts within, at and beyond
\* the size limit that are malformed, nested too deep, or well-formed.
TripTexts ==
    { JsonText(n, TRUE, FALSE, "shallow", NoValue) : n \in {0, 3, 10001} }
    \cup { JsonText(n, FALSE, FALSE, d, NoValue) :
             n \in {50, 10000, 10001}, d \in {"shallow", "deep"} }
    \cup { JsonText(10000, FALSE, TRUE, "deep", JsonArrayValue) }
    \cup { JsonText(n, FALSE, TRUE, "shallow", v) : n \in {50, 10001}, v \in TripValues }

TripInit ==
    /\ ExtractIdle
    /\ ExecIdle
    /\ ddl = <<>>
    /\ dialect = "sqlite"
    /\ parsed = Pending
    /\ PlanIdle
    /\ ServerIdle
    /\ SchemaIdle
    /\ TripIdle
    /\ AgentIdle

\* server.process_json_request(json_str)
ProcessJsonRequest ==
    /\ trip_requests < MaxTripRequests
    /\ \E text \in TripTexts, init \in {"ok", "raises"}, answer \in {"ok", "error"} :
          \E returned \in {MCPServer_process_json_request(text, trip_agent, init, answer)} :
             /\ json_str' = text
             /\ json_response' = returned.document
             /\ trip_raised' = None
             /\ trip_agent' = returned.agent
             /\ trip_calls' = returned.calls
    /\ trip_requests' = trip_requests + 1
    /\ UNCHANGED <<extractVars, execVars, parseVars, planVars, serverVars, schemaVars, agentVars>>

TripNext == ProcessJsonRequest

TripSpec == TripInit /\ [][TripNext]_vars

----------------------------------------------------------------------------
(* PlanSpec: one planner call on the schema parsed from a DDL text.        *)
(* The DDL is parsed first, as the server does; LLMAgent reads the text    *)
(* itself.  The replies of the language model are chosen by the            *)
(* environment at each request.                                            *)

\* Largest number of CREATE TABLE statements in a DDL text of PlanSpec.
MaxPlanTables == 3

\* b and c both reference a (a diamond when c also references b); d
\* references a table that no statement defines.
CreateA ==
    CreateTable("a", <<ColumnDef("id", INTEGER, <<PrimaryKeyColumnConstraint>>),
                       ColumnDef("name", VARCHAR, <<>>),
                       ColumnDef("created", DATE, <<>>)>>)

CreateB ==
    CreateTable("b", <<ColumnDef("id", INTEGER, <<PrimaryKeyColumnConstraint>>),
                       ColumnDef("a_id", INTEGER, <<>>),
                       ColumnDef("amount", DECIMAL, <<>>),
                       ForeignKey(<<"a_id">>, "a", <<"id">>)>>)

CreateC ==
    CreateTable("c", <<ColumnDef("id", INTEGER, <<PrimaryKeyColumnConstraint>>),
                       ColumnDef("a_id", INTEGER, <<>>),
                       ColumnDef("b_id", INTEGER, <<>>),
                       ForeignKey(<<"a_id">>, "a", <<"id">>),
                       ForeignKey(<<"b_id">>, "b", <<"id">>)>>)

CreateD ==
    CreateTable("d", <<ColumnDef("id", INTEGER, <<PrimaryKeyColumnConstraint>>),
                       ColumnDef("z_id", INTEGER, <<>>),
                       ForeignKey(<<"z_id">>, "z", <<"id">>)>>)

PlanStatements == {CreateA, CreateB, CreateC, CreateD}

\* DDL texts with distinct table names, OtherStatement alone being a text
\* that parses and creates no table.
PlanDdls ==
    {d \in SeqsUpTo(PlanStatements, MaxPlanTables) :
        \A i, j \in DOMAIN d : i # j => d[i] # d[j]} \cup {<<OtherStatement>>}

\* <<>> is also the absent (None) intent list.
PlanIntentLists ==
    { <<>>, <<"overview">>, <<"relationships">>, <<"distributions", "time_series">>,
      <<"aggregations", "overview">>, <<"distribution">>, <<"relationship">>,
      <<"aggregation">> }

\* Queries the language model may write.
LLMQueries ==
    { Query("llm", "a", None, <<"b">>, 10000, FALSE),
      Query("llm", "a", None, <<>>, 0, TRUE),
      Query("llm", "a", None, <<"b", "c", "c">>, 500, FALSE) }

Unreachable == {Exchange("timeout", ErrorText), Exchange("connection_error", ErrorText)}

Prose == Text(FALSE, "prose", NoObject, NoQuery)

AnalysisExchanges ==
    Unreachable \cup
    { Exchange("text", Prose),
      Exchange("text", Text(FALSE, "badjson", NoObject, NoQuery)),
      Exchange("text", Text(FALSE, "json",
                            JsonObject({"business_domain", "key_entities"}, NoQuery,
                                       "e-commerce", "list"), NoQuery)),
      Exchange("text", Text(FALSE, "json", NoObject, NoQuery)),
      Exchange("text", Text(FALSE, "json",
                            JsonObject({"business_domain"}, NoQuery, "#malformed", None),
                            NoQuery)),
      Exchange("text", Text(FALSE, "json",
                            JsonObject({"key_entities"}, NoQuery, None, "#malformed"),
                            NoQuery)) }

SqlExchanges ==
    Unreachable \cup
    { Exchange("api_error", ErrorText),
      Exchange("text", Prose),
      Exchange("text", Text(FALSE, "badjson", NoObject, NoQuery)),
      Exchange("text", Text(FALSE, "json", NoObject, NoQuery)),
      Exchange("text", Text(FALSE, "json", ErrorResult, NoQuery)) }
    \cup {Exchange("text", Text(FALSE, "sql", NoObject, q)) : q \in LLMQueries}
    \cup {Exchange("text", Text(FALSE, "json", JsonObject({"query"}, q, None, None), NoQuery)) :
            q \in LLMQueries}

ExplainExchanges == {Exchange("timeout", ErrorText), Exchange("text", Prose)}

MasterExchanges ==
    { Exchange("connection_error", ErrorText),
      Exchange("http_error", ErrorText),
      Exchange("empty", ErrorText),
      Exchange("text", Prose) }
    \cup {Exchange("text", Text(FALSE, "sql", NoObject, q)) : q \in LLMQueries}

PlanInit ==
    /\ ExtractIdle
    /\ ExecIdle
    /\ ddl \in PlanDdls
    /\ dialect = "sqlite"
    /\ parsed = DDLParser_parse(dialect, ddl)
    /\ plan_schema = parsed.schema
    /\ plan_intents \in PlanIntentLists
    /\ called = "none"
    /\ suggestions = <<>>
    /\ query_plans = <<>>
    /\ master_sql = NoQuery
    /\ raised = None
    /\ llm_log = <<>>
    /\ ServerIdle
    /\ SchemaIdle
    /\ TripIdle
    /\ AgentIdle

\* SQLGenerator(database_type).generate_suggestions(schema, intents)
GenerateSuggestions ==
    /\ called = "none"
    /\ called' = "generate_suggestions"
    /\ suggestions' = generate_suggestions(plan_schema, plan_intents)
    /\ UNCHANGED <<extractVars, execVars, parseVars, serverVars, schemaVars, tripVars, agentVars, plan_schema, plan_intents, query_plans, master_sql,
                   raised, llm_log>>

\* agent.suggest_queries_for_schema(_schema_to_dict(schema), intents)
SuggestQueriesForSchema ==
    /\ called = "none"
    /\ \E ea \in AnalysisExchanges, es \in SqlExchanges, ee \in ExplainExchanges :
          LET out == suggest_queries_for_schema(_schema_to_dict(plan_schema), plan_intents,
                        [analysis |-> ea, sql |-> es, explain |-> ee])
          IN /\ query_plans' = out.value
             /\ raised' = out.raised
             /\ llm_log' = out.log
    /\ called' = "suggest_queries_for_schema"
    /\ UNCHANGED <<extractVars, execVars, parseVars, serverVars, schemaVars, tripVars, agentVars, plan_schema, plan_intents, suggestions, master_sql>>

\* LLMAgent().generate_master_query(ddl, intents)
GenerateMasterQuery ==
    /\ called = "none"
    /\ \E e \in MasterExchanges :
          /\ master_sql' = generate_master_query(ddl, e)
          /\ llm_log' = <<e>>
    /\ called' = "generate_master_query"
    /\ UNCHANGED <<extractVars, execVars, parseVars, serverVars, schemaVars, tripVars, agentVars, plan_schema, plan_intents, suggestions, query_plans,
                   raised>>

PlanNext == GenerateSuggestions \/ SuggestQueriesForSchema \/ GenerateMasterQuery

PlanSpec == PlanInit /\ [][PlanNext]_vars

----------------------------------------------------------------------------
(* GenSpec: SQLGenerator(schema).generate_suggestions(intents) on the      *)
(* schema parsed from a DDL text, over tables of every column mix.         *)

\* Largest number of CREATE TABLE statements in a DDL text of GenSpec.
MaxGenTables == 2

\* e has a categorical primary key and no other categorical column.
CreateE ==
    CreateTable("e", <<ColumnDef("code", VARCHAR, <<PrimaryKeyColumnConstraint>>),
                       ColumnDef("qty", INTEGER, <<>>)>>)

\* f references e and a, and d's missing table z in between.
CreateF ==
    CreateTable("f", <<ColumnDef("id", INTEGER, <<PrimaryKeyColumnConstraint>>),
                       ColumnDef("e_code", VARCHAR, <<>>),
                       ColumnDef("z_id", INTEGER, <<>>),
                       ColumnDef("a_id", INTEGER, <<>>),
                       ForeignKey(<<"e_code">>, "e", <<"code">>),
                       ForeignKey(<<"z_id">>, "z", <<"id">>),
                       ForeignKey(<<"a_id">>, "a", <<"id">>)>>)

\* w has four categorical and three numeric columns besides its key, two
\* date columns, and a column whose type is both categorical and numeric.
CreateW ==
    CreateTable("w", <<ColumnDef("id", INTEGER, <<PrimaryKeyColumnConstraint>>),
                       ColumnDef("c1", VARCHAR, <<>>),
                       ColumnDef("n1", INTEGER, <<>>),
                       ColumnDef("c2", TEXT, <<>>),
                       ColumnDef("status", ENUM_PRINTED, <<>>),
                       ColumnDef("at", DATE, <<>>),
                       ColumnDef("n2", DECIMAL, <<>>),
                       ColumnDef("c3", VARCHAR, <<>>),
                       ColumnDef("n3", INTEGER, <<>>),
                       ColumnDef("until", DATE, <<>>)>>)

\* a CREATE TABLE from which no column is parsed
CreateZ == CreateTable("z0", <<>>)

GenStatements == {CreateA, CreateB, CreateD, CreateE, CreateF, CreateW, CreateZ}

GenDdls ==
    {d \in SeqsUpTo(GenStatements, MaxGenTables) :
        \A i, j \in DOMAIN d : i # j => d[i] # d[j]}

GenIntentLists ==
    { <<>>, <<"overview">>, <<"distributions">>, <<"relationships">>, <<"time_series">>,
      <<"aggregations">>, <<"relationships", "relationships">>,
      <<"time_series", "dashboard", "overview">>, <<"dashboard">>,
      <<"aggregations", "distributions">> }

GenInit ==
    /\ ExtractIdle
    /\ ExecIdle
    /\ ddl \in GenDdls
    /\ dialect = "sqlite"
    /\ parsed = DDLParser_parse(dialect, ddl)
    /\ plan_schema = parsed.schema
    /\ plan_intents \in GenIntentLists
    /\ called = "none"
    /\ suggestions = <<>>
    /\ query_plans = <<>>
    /\ master_sql = NoQuery
    /\ raised = None
    /\ llm_log = <<>>
    /\ ServerIdle
    /\ SchemaIdle
    /\ TripIdle
    /\ AgentIdle

GenNext == GenerateSuggestions

GenSpec == GenInit /\ [][GenNext]_vars

----------------------------------------------------------------------------
(* ServerSpec: one request handled by DDLParserMCPServer.handle_request.   *)

ServerDdlTexts ==
    { DdlText(<<"CREATE", "TABLE", "a">>, <<CreateA>>),
      DdlText(<<"create", "table", "a", "create", "table", "b">>, <<CreateA, CreateB>>),
      DdlText(<<"CREATE", "TABLE", "a", "granted">>, <<CreateA>>),
      DdlText(<<"DROP", "DATABASE", "prod">>, <<OtherStatement>>),
      DdlText(<<"create", "table", "a", "grant", "all">>, <<CreateA, OtherStatement>>),
      DdlText(<<"delete", "from", "a">>, <<OtherStatement>>),
      DdlText(<<"update", "a", "set">>, <<OtherStatement>>),
      DdlText(<<"SELECT", "1">>, <<OtherStatement>>),
      DdlText(<<"CREATE", "TABLE">>, <<BadStatement>>) }

ServerMermaidTexts ==
    { DdlText(<<"erDiagram", "a", "b">>, <<BadStatement>>),
      DdlText(<<"erDiagram", "GRANT", "a">>, <<BadStatement>>) }

\* The sizes of an input: within the limit, at the limit, one beyond it.
InputSizes == {50, max_input_size, max_input_size + 1}

ServerRequests ==
    { DDLParserRequest([t EXCEPT !.len = n], f, d, i) :
        t \in ServerDdlTexts \cup ServerMermaidTexts, n \in InputSizes,
        f \in {"ddl", "mermaid"}, d \in {"sqlite", None},
        i \in {<<>>, <<"overview", "relationships">>} }

\* The replies to the request that converts a Mermaid diagram to DDL.
MermaidExchanges ==
    Unreachable \cup
    { Exchange("api_error", [ErrorText EXCEPT !.ddl = DdlText(<<"LLM", "Error">>, b)]) :
        b \in {<<BadStatement>>, <<OtherStatement>>} }
    \cup { Exchange("text", [Prose EXCEPT !.ddl = t]) :
             t \in { DdlText(<<"CREATE", "TABLE", "a">>, <<CreateA>>),
                      DdlText(<<"create", "table", "a", "create", "table", "b">>,
                              <<CreateA, CreateB>>),
                      DdlText(<<"DROP", "DATABASE", "prod">>, <<OtherStatement>>),
                      DdlText(<<"erDiagram", "a", "b">>, <<BadStatement>>) } }

ServerAnalysisExchanges ==
    { Exchange("timeout", ErrorText),
      Exchange("text", Text(FALSE, "json",
                            JsonObject({"business_domain", "key_entities"}, NoQuery,
                                       "e-commerce", "list"), NoQuery)),
      Exchange("text", Text(FALSE, "json",
                            JsonObject({"key_entities"}, NoQuery, None, "#malformed"),
                            NoQuery)) }

ServerSqlExchanges ==
    { Exchange("connection_error", ErrorText),
      Exchange("text", Prose),
      Exchange("text", Text(FALSE, "json",
                            JsonObject({"query"}, Query("llm", "a", None, <<"b">>, 10000, FALSE),
                                       None, None), NoQuery)) }

ServerInit ==
    /\ ExtractIdle
    /\ ExecIdle
    /\ server_kind \in {"llm", "rule_based"}
    /\ request \in ServerRequests
    /\ server_response = NoResponse
    /\ server_raised = None
    /\ calls = <<>>
    /\ ddl = <<>>
    /\ dialect = "sqlite"
    /\ parsed = Pending
    /\ PlanIdle
    /\ SchemaIdle
    /\ TripIdle
    /\ AgentIdle

\* server.handle_request(request)
HandleRequest ==
    /\ server_kind = "llm"
    /\ calls = <<>>
    /\ \E em \in MermaidExchanges, ec \in ServerAnalysisExchanges,
          ea \in ServerAnalysisExchanges, es \in ServerSqlExchanges,
          ee \in ExplainExchanges :
          \E handled \in {handle_request(request,
                             [mermaid |-> em, context |-> ec, analysis |-> ea,
                              sql |-> es, explain |-> ee])} :
             /\ server_response' = handled.response
             /\ server_raised' = handled.raised
             /\ calls' = handled.calls
    /\ UNCHANGED <<extractVars, execVars, server_kind, request, parseVars, planVars, schemaVars, tripVars, agentVars>>

\* handle_request(request) of the rule-based server
BackupHandleRequest ==
    /\ server_kind = "rule_based"
    /\ calls = <<>>
    /\ \E handled \in {Backup_handle_request(request)} :
          /\ server_response' = handled.response
          /\ server_raised' = handled.raised
          /\ calls' = handled.calls
    /\ UNCHANGED <<extractVars, execVars, server_kind, request, parseVars, planVars, schemaVars, tripVars, agentVars>>

ServerNext == HandleRequest \/ BackupHandleRequest

ServerSpec == ServerInit /\ [][ServerNext]_vars

----------------------------------------------------------------------------
(* AgentSpec: one SQLIntelligenceAgent serves several calls: planning      *)
(* calls made on it directly and DDL requests of the server that owns it.  *)

\* Largest number of calls made on one agent.
MaxAgentCalls == 3

AgentSchemas ==
    { _schema_to_dict(DDLParser_parse("sqlite", d).schema) :
        d \in {<<CreateA>>, <<CreateA, CreateB>>} }

AgentInit ==
    /\ ExtractIdle
    /\ ExecIdle
    /\ ddl = <<>>
    /\ dialect = "sqlite"
    /\ parsed = Pending
    /\ PlanIdle
    /\ ServerIdle
    /\ SchemaIdle
    /\ TripIdle
    /\ AgentIdle

\* query_history after suggest_queries_for_schema: generate_query_from_intent
\* stores the query when the model gave a result without "error"
HistoryAfter(history, plans) ==
    IF plans.raised = None /\ Len(plans.log) = 3
    THEN Append(history, plans.value[1].query)
    ELSE history

\* agent.suggest_queries_for_schema(schema, intents)
AgentSuggestQueries ==
    /\ agent_calls < MaxAgentCalls
    /\ \E schema \in AgentSchemas, ea \in ServerAnalysisExchanges,
          es \in ServerSqlExchanges, ee \in ExplainExchanges :
          \E plans \in {suggest_queries_for_schema(schema, <<>>,
                            [analysis |-> ea, sql |-> es, explain |-> ee])} :
             /\ schema_cache' = CacheStore(schema_cache, schema, analyze_schema(ea))
             /\ query_history' = HistoryAfter(query_history, plans)
             /\ analysis_requests' = Append(analysis_requests, _hash_schema(schema))
             /\ agent_last' = [entry |-> "suggest_queries_for_schema",
                               schema_hash |-> _hash_schema(schema),
                               cached_before |-> _hash_schema(schema) \in DOMAIN schema_cache,
                               analyses |-> 1]
    /\ agent_calls' = agent_calls + 1
    /\ UNCHANGED <<extractVars, execVars, parseVars, planVars, serverVars, schemaVars, tripVars>>

\* _handle_ddl_input from the analysis on: analyze_business_context, then
\* suggest_queries_for_schema unless the analysis raised
AgentHandleDdlInput ==
    /\ agent_calls < MaxAgentCalls
    /\ \E schema \in AgentSchemas, ec \in ServerAnalysisExchanges,
          ea \in ServerAnalysisExchanges, es \in ServerSqlExchanges,
          ee \in ExplainExchanges :
          \E analysis \in {analyze_business_context(ec)},
             plans \in {suggest_queries_for_schema(schema, <<>>,
                            [analysis |-> ea, sql |-> es, explain |-> ee])} :
             LET again == analysis.raised = None
                 h == _hash_schema(schema)
             IN /\ schema_cache' =
                      IF again THEN CacheStore(schema_cache, schema, analyze_schema(ea))
                      ELSE CacheStore(schema_cache, schema, analyze_schema(ec))
                /\ query_history' =
                      IF again THEN HistoryAfter(query_history, plans) ELSE query_history
                /\ analysis_requests' =
                      analysis_requests \o (IF again THEN <<h, h>> ELSE <<h>>)
                /\ agent_last' = [entry |-> "_handle_ddl_input", schema_hash |-> h,
                                  cached_before |-> h \in DOMAIN schema_cache,
                                  analyses |-> IF again THEN 2 ELSE 1]
    /\ agent_calls' = agent_calls + 1
    /\ UNCHANGED <<extractVars, execVars, parseVars, planVars, serverVars, schemaVars, tripVars>>

AgentNext == AgentSuggestQueries \/ AgentHandleDdlInput

AgentSpec == AgentInit /\ [][AgentNext]_vars

----------------------------------------------------------------------------
(* ExtractSpec: the connector reads one reply of the language model.       *)

\* Largest number of tokens of a reply.
MaxResponseLen == 5

ExtractInit ==
    /\ response_tokens \in SeqsUpTo(ResponseTokens, MaxResponseLen)
    /\ extract_call = "none"
    /\ extract_result = NoObject
    /\ ddl = <<>>
    /\ dialect = "sqlite"
    /\ parsed = Pending
    /\ PlanIdle
    /\ ServerIdle
    /\ SchemaIdle
    /\ TripIdle
    /\ AgentIdle
    /\ ExecIdle

\* OllamaConnector.analyze_schema(schema_info)
AnalyzeSchema ==
    /\ extract_call = "none"
    /\ extract_call' = "analyze_schema"
    /\ extract_result' = analyze_schema(ResponseExchange(response_tokens))
    /\ UNCHANGED <<response_tokens, parseVars, planVars, serverVars, schemaVars, tripVars,
                   agentVars, execVars>>

\* OllamaConnector.generate_sql_query(user_intent, schema_info, database_type)
GenerateSqlQuery ==
    /\ extract_call = "none"
    /\ extract_call' = "generate_sql_query"
    /\ extract_result' = generate_sql_query(ResponseExchange(response_tokens))
    /\ UNCHANGED <<response_tokens, parseVars, planVars, serverVars, schemaVars, tripVars,
                   agentVars, execVars>>

ExtractNext == AnalyzeSchema \/ GenerateSqlQuery

ExtractSpec == ExtractInit /\ [][ExtractNext]_vars

----------------------------------------------------------------------------
(* ExecSpec: calls on one QueryExecutor, in any order.                     *)

\* Largest number of calls made on the executor.
MaxExecOps == 3

\* Largest number of queries handed to execute_queries.
MaxQueries == 2

ExecConfigs ==
    {QueryExecutionConfig(t, c) : t \in {"sqlite", "postgres", "oracle"}, c \in BOOLEAN}

ExecQueries ==
    {QueryWithMetadata(q, "rows of a", k, "bar") : q \in {GoodSql, BadSql}, k \in {"k1", "k2"}}

ExecInit ==
    /\ connection = None
    /\ exec_config \in ExecConfigs
    /\ exec_last = NoExecCall
    /\ exec_ops = 0
    /\ ddl = <<>>
    /\ dialect = "sqlite"
    /\ parsed = Pending
    /\ PlanIdle
    /\ ServerIdle
    /\ SchemaIdle
    /\ TripIdle
    /\ AgentIdle
    /\ ExtractIdle

ExecRest == <<parseVars, planVars, serverVars, schemaVars, tripVars, agentVars, extractVars>>

\* executor.connect()
Connect ==
    /\ exec_ops < MaxExecOps
    /\ \E reachable \in BOOLEAN :
          \E r \in {QueryExecutor_connect(connection, exec_config, reachable)} :
             /\ connection' = r.connection
             /\ exec_last' = ExecCall("connect", r.raised, connection, <<>>, <<>>, <<>>,
                                      <<>>, NoResults)
    /\ exec_ops' = exec_ops + 1
    /\ UNCHANGED <<exec_config, ExecRest>>

\* with executor: __enter__ connects
Enter ==
    /\ exec_ops < MaxExecOps
    /\ \E reachable \in BOOLEAN :
          \E r \in {QueryExecutor_connect(connection, exec_config, reachable)} :
             /\ connection' = r.connection
             /\ exec_last' = ExecCall("__enter__", r.raised, connection, <<>>, <<>>, <<>>,
                                      <<>>, NoResults)
    /\ exec_ops' = exec_ops + 1
    /\ UNCHANGED <<exec_config, ExecRest>>

\* executor.disconnect()
Disconnect ==
    /\ exec_ops < MaxExecOps
    /\ connection' = QueryExecutor_disconnect(connection)
    /\ exec_last' = ExecCall("disconnect", None, connection, <<>>, <<>>, <<>>, <<>>,
                             NoResults)
    /\ exec_ops' = exec_ops + 1
    /\ UNCHANGED <<exec_config, ExecRest>>

\* leaving the with block: __exit__ disconnects
Exit ==
    /\ exec_ops < MaxExecOps
    /\ connection' = QueryExecutor_disconnect(connection)
    /\ exec_last' = ExecCall("__exit__", None, connection, <<>>, <<>>, <<>>, <<>>,
                             NoResults)
    /\ exec_ops' = exec_ops + 1
    /\ UNCHANGED <<exec_config, ExecRest>>

\* executor.execute_query(query)
ExecuteQuery ==
    /\ exec_ops < MaxExecOps
    /\ \E query \in {GoodSql, BadSql} :
          \E r \in {QueryExecutor_execute_query(connection, query)} :
             exec_last' = ExecCall("execute_query", r.raised, connection, <<>>, <<query>>,
                                   IF r.executed THEN <<query>> ELSE <<>>,
                                   r.results, NoResults)
    /\ exec_ops' = exec_ops + 1
    /\ UNCHANGED <<connection, exec_config, ExecRest>>

\* executor.execute_queries(queries)
ExecuteQueries ==
    /\ exec_ops < MaxExecOps
    /\ \E queries \in SeqsUpTo(ExecQueries, MaxQueries) :
          \E r \in {QueryExecutor_execute_queries(connection, exec_config, queries)} :
             exec_last' = ExecCall("execute_queries", None, connection, queries,
                                   r.attempted, r.executed, <<>>, r.value)
    /\ exec_ops' = exec_ops + 1
    /\ UNCHANGED <<connection, exec_config, ExecRest>>

ExecNext == Connect \/ Enter \/ Disconnect \/ Exit \/ ExecuteQuery \/ ExecuteQueries

ExecSpec == ExecInit /\ [][ExecNext]_vars

----------------------------------------------------------------------------
(* Properties of DDLParser.parse (ParseSpec).                              *)

Returned == parsed.outcome = "returned"

TableNamesOf(schema) == {schema.tables[i].name : i \in DOMAIN schema.tables}

\* The tables the DDL text defines.
DefinedIn(statements) ==
    {statements[i].name : i \in {j \in DOMAIN statements : statements[j].k = "Create"}}

\* The FOREIGN KEY constraints of the DDL text, by statement and position.
FkOccurrences(statements) ==
    UNION {{<<i, j>> : j \in {n \in DOMAIN statements[i].expressions :
                                  statements[i].expressions[n].k = "ForeignKey"}} :
           i \in {m \in DOMAIN statements : statements[m].k = "Create"}}

FkNode(statements, o) == statements[o[1]].expressions[o[2]]

\* C1: every relationship of a returned schema names, as from_table and as
\* to_table, a table of the schema's table list; a foreign key to a table
\* the DDL does not define yields no relationship and parse still returns.
C1_RelationshipsNameTables ==
    /\ Returned =>
          \A i \in DOMAIN parsed.schema.relationships :
              /\ parsed.schema.relationships[i].from_table \in TableNamesOf(parsed.schema)
              /\ parsed.schema.relationships[i].to_table \in TableNamesOf(parsed.schema)
    /\ (parsed.outcome # "pending" /\ ~SqlglotRaises(ddl)) => Returned

\* The relationship the claim C2 expects of a FOREIGN KEY (a) REFERENCES other(b)
\* in table T.
RelationshipOf(T, fk) ==
    [from_table |-> T, to_table |-> fk.reference.table,
     from_column |-> fk.expressions[1], to_column |-> fk.reference.columns[1],
     type |-> "1:N", label |-> None]

\* C2: a FOREIGN KEY (a) REFERENCES other(b) of table T, with other defined
\* in the same DDL before or after T, yields exactly one relationship
\* T.a -> other.b of cardinality one-to-many: the schema holds as many
\* such relationships as the DDL holds such constraints.
C2_OneRelationshipPerForeignKey ==
    Returned =>
        \A o \in FkOccurrences(ddl) :
            LET T == ddl[o[1]].name
                fk == FkNode(ddl, o)
            IN fk.reference.table \in DefinedIn(ddl) =>
                 Cardinality({i \in DOMAIN parsed.schema.relationships :
                                 parsed.schema.relationships[i] = RelationshipOf(T, fk)})
                 = Cardinality({q \in FkOccurrences(ddl) :
                                 /\ ddl[q[1]].name = T
                                 /\ FkNode(ddl, q) = fk})

\* Witness of C2: table b references table a, which the DDL defines after b.
C2_Witness ==
    /\ Returned
    /\ Len(ddl) = 2 /\ ddl[1].k = "Create" /\ ddl[2].k = "Create"
    /\ ddl[1].name = "b" /\ ddl[2].name = "a"
    /\ \E i \in DOMAIN parsed.schema.relationships :
          /\ parsed.schema.relationships[i].from_table = "b"
          /\ parsed.schema.relationships[i].to_table = "a"
          /\ parsed.schema.relationships[i].from_column = "x"
          /\ parsed.schema.relationships[i].to_column = "id"

\* N well-formed CREATE TABLE statements, distinct names, no FOREIGN KEY.
PlainTables(statements) ==
    /\ \A i \in DOMAIN statements :
          /\ statements[i].k = "Create"
          /\ \A j \in DOMAIN statements[i].expressions :
                statements[i].expressions[j].k # "ForeignKey"
    /\ \A i, j \in DOMAIN statements : i # j => statements[i].name # statements[j].name

\* C3: for a DDL of N well-formed CREATE TABLE statements with distinct
\* names and no FOREIGN KEY, parse returns exactly N tables, in statement
\* order, and no relationship.
C3_PlainTablesInOrder ==
    (parsed.outcome # "pending" /\ PlainTables(ddl)) =>
        /\ Returned
        /\ Len(parsed.schema.tables) = Len(ddl)
        /\ \A i \in DOMAIN ddl : parsed.schema.tables[i].name = ddl[i].name
        /\ parsed.schema.relationships = <<>>

\* Witness of C3: two plain tables, b then a, parsed.
C3_Witness ==
    /\ Returned /\ PlainTables(ddl) /\ Len(ddl) = 2
    /\ ddl[1].name = "b" /\ ddl[1].expressions # <<>>
    /\ Len(parsed.schema.tables) = 2

----------------------------------------------------------------------------
(* Properties of the planners (PlanSpec).                                  *)

RuleBased == called = "generate_suggestions"
MasterMode == called = "suggest_queries_for_schema"
SingleShot == called = "generate_master_query"

\* every request the call made to the language model timed out or could
\* not connect
LlmUnreachable == llm_log # <<>> /\ \A i \in DOMAIN llm_log : llm_log[i] \in Unreachable

\* LLMAgent took the reply of the language model for the master query
Accepted == llm_log[1].kind = "text" /\ LooksLikeSql(llm_log[1].text)

QueriesOf(plans) == [i \in DOMAIN plans |-> plans[i].query]

ReferencedTables ==
    {plan_schema.relationships[i].to_table : i \in DOMAIN plan_schema.relationships}

NoTableTwice(joins) == \A i, j \in DOMAIN joins : i # j => joins[i] # joins[j]

C10_RowCap ==
    /\ (MasterMode /\ raised = None) =>
          \A i \in DOMAIN query_plans : query_plans[i].query.limit = 10000
    /\ SingleShot => master_sql.limit = 10000

C12_OverviewTwoPerTable ==
    (RuleBased /\ plan_intents = <<"overview">>) =>
        /\ Len(suggestions) = 2 * Len(plan_schema.tables)
        /\ \A i \in DOMAIN plan_schema.tables :
              /\ suggestions[2 * i - 1].query.shape = "sample"
              /\ suggestions[2 * i - 1].query.from_table = plan_schema.tables[i].name
              /\ suggestions[2 * i - 1].query.limit = 100
              /\ suggestions[2 * i - 1].visualization_type = "table"
              /\ suggestions[2 * i].query.shape = "count"
              /\ suggestions[2 * i].query.from_table = plan_schema.tables[i].name
              /\ suggestions[2 * i].visualization_type = "table"

C12_Witness ==
    /\ RuleBased
    /\ plan_intents = <<"overview">>
    /\ Len(plan_schema.tables) = 2
    /\ Len(suggestions) = 4

\* the plural spelling of an intent tag
Plural(intent) ==
    CASE intent = "distribution" -> "distributions"
      [] intent = "relationship" -> "relationships"
      [] intent = "aggregation" -> "aggregations"
      [] OTHER -> intent

\* C13: generate_suggestions treats the singular and the plural spelling of
\* an intent tag alike: planning with distribution, relationship or
\* aggregation yields the plan list of distributions, relationships or
\* aggregations.
C13_SingularIsPlural ==
    (RuleBased /\ plan_intents # <<>>) =>
        suggestions = generate_suggestions(plan_schema,
                          [i \in DOMAIN plan_intents |-> Plural(plan_intents[i])])

----------------------------------------------------------------------------
(* Properties of the schema and its dictionary (SchemaSpec).               *)

Converted == schema_dicts # <<>>

\* the schemas DDLParser.parse returns for the same text under any tag
SchemasOfText ==
    {r.schema : r \in {x \in {DDLParser_parse(d, ddl) : d \in DialectTags} :
                            x.outcome = "returned"}}

----------------------------------------------------------------------------
(* Properties of handle_request (ServerSpec).                              *)

Answered == server_response # NoResponse

SafetyCheckFails(req) == validate_ddl_safety(req.input) # None

SizeCheckFails(req) == validate_input_size(req.input, max_input_size) # None

\* the call at position i invokes the parser or the language model
Invokes(i) == calls[i] \in {"DDLParser.parse", "OllamaConnector.generate"}

\* C4 (as stated): a DDL input that matches a dangerous pattern is rejected
\* by the safety pre-check with a ValidationError, and handle_request
\* reports it as a validation error.
C4_DangerousDdlIsValidationError ==
    (Answered /\ request.format = "ddl" /\ ~SizeCheckFails(request)
        /\ SafetyCheckFails(request)) =>
        /\ server_raised = "ValidationError"
        /\ server_response.status = "error"
        /\ server_response.error[1] = "Validation error"

\* C5 (as stated): for the DDL and the Mermaid format, the size check and
\* the safety check are both called before the parser or the language
\* model is invoked, and an input that fails either check causes no
\* parsing and no request to the language model.
C5_ChecksBeforeParserAndLlm ==
    Answered =>
        /\ \A i \in DOMAIN calls :
              Invokes(i) =>
                 /\ \E j \in 1..(i - 1) : calls[j] = "validate_input_size"
                 /\ \E j \in 1..(i - 1) : calls[j] = "validate_ddl_safety"
        /\ (SizeCheckFails(request) \/ SafetyCheckFails(request)) =>
              \A i \in DOMAIN calls : ~Invokes(i)

\* handle_request has run
RequestHandled == calls # <<>>

ErrorKinds == {"Validation error", "Parsing error", "Server error"}

\* C15 (as stated): handle_request returns one response and never raises:
\* either a success carrying a schema and its query list, or an error with
\* a non-empty message whose kind (validation, parsing, server) can be
\* told.
C15_SuccessOrKindedError ==
    RequestHandled =>
        \/ /\ server_response.status = "success"
           /\ server_response.schema # NoSchema
        \/ /\ server_response.status = "error"
           /\ server_response.error # <<>>
           /\ server_response.error[1] \in ErrorKinds

\* C15 (amended): handle_request returns one response and never raises.
\* An error carries a non-empty message.  The message starts with
\* "Validation error", "Parsing error" or "Server error" exactly when a
\* ValidationError, a ParsingError or another exception reached
\* handle_request; an error a handler returns itself ("No tables found in
\* DDL", a failed Mermaid conversion) names no kind.  A success for a DDL
\* input carries a schema with tables (and, from the rule-based server,
\* the plans of generate_suggestions for it); the rule-based server's
\* success for a Mermaid input carries neither schema nor queries.
C15_ResponseShapes ==
    RequestHandled =>
        /\ server_response.status \in {"success", "error"}
        /\ server_response.status = "error" =>
              /\ server_response.error # <<>>
              /\ server_response.error[1] \in ErrorKinds <=> server_raised # None
              /\ server_response.error[1] = "Validation error"
                    <=> server_raised = "ValidationError"
              /\ server_response.error[1] = "Parsing error" <=> server_raised = "ParsingError"
              /\ server_raised = None =>
                    server_response.error[1] \in
                        {"No tables found in DDL", "Could not convert Mermaid diagram to DDL",
                         "Mermaid conversion failed"}
        /\ server_response.status = "success" =>
              /\ server_raised = None
              /\ (server_kind = "rule_based" /\ request.format = "mermaid") =>
                    /\ server_response.schema = NoSchema
                    /\ server_response.suggested_queries = <<>>
              /\ (server_kind = "llm" \/ request.format = "ddl") =>
                    server_response.schema.tables # <<>>
              /\ (server_kind = "rule_based" /\ request.format = "ddl") =>
                    server_response.suggested_queries =
                        generate_suggestions(server_response.schema,
                                             request.visualization_intents)

C15_Witness ==
    /\ RequestHandled
    /\ server_kind = "llm"
    /\ request.format = "ddl"
    /\ server_response.status = "error"
    /\ server_response.error = <<"No tables found in DDL">>

----------------------------------------------------------------------------
(* Further properties of DDLParser.parse (ParseSpec, SchemaSpec).          *)

\* C16: in every schema DDLParser.parse returns, a column whose name is in
\* its table's primary_keys is not nullable, whether PRIMARY KEY stands on
\* the column or in a table-level PRIMARY KEY (...) constraint.
C16_PrimaryKeyColumnsNotNullable ==
    Returned =>
        \A i \in DOMAIN parsed.schema.tables :
            LET table == parsed.schema.tables[i] IN
            \A j \in DOMAIN table.columns :
                InSeq(table.columns[j].name, table.primary_keys)
                    => ~table.columns[j].is_nullable

\* C25: in every schema DDLParser.parse returns, each column of a table
\* that a foreign-key descriptor of the table lists is marked is_foreign_key
\* with references naming the descriptor's referenced table, whether the
\* FOREIGN KEY constraint stands before or after the column's definition;
\* and no column has references set while is_foreign_key is false.
C25_ForeignKeyColumnsMarked ==
    Returned =>
        \A i \in DOMAIN parsed.schema.tables :
            LET table == parsed.schema.tables[i] IN
            \A j \in DOMAIN table.columns :
                /\ \A f \in DOMAIN table.foreign_keys :
                      InSeq(table.columns[j].name, table.foreign_keys[f].columns)
                          => /\ table.columns[j].is_foreign_key
                             /\ table.columns[j].references.table
                                    = table.foreign_keys[f].referenced_table
                /\ ~table.columns[j].is_foreign_key
                      => table.columns[j].references = NoneRef

\* C17: the dialect tag is normalised without regard to case: sqlite to
\* sqlite, postgres and postgresql to postgres, mysql and mariadb to mysql,
\* every other tag to sqlite.  The tag never makes parse fail, the schema
\* returned carries the normalised tag, and normalising a normalised tag
\* changes nothing.
C17_DialectNormalised ==
    /\ parsed.outcome = "raised" => SqlglotRaises(ddl)
    /\ Returned =>
          /\ dialect \in {"sqlite", "SQLite"} => parsed.schema.database_type = "sqlite"
          /\ dialect \in {"postgres", "postgresql", "PostgreSQL"}
                => parsed.schema.database_type = "postgres"
          /\ dialect \in {"mysql", "MySQL", "mariadb", "MariaDB"}
                => parsed.schema.database_type = "mysql"
          /\ dialect \in {"oracle", "Oracle", ""} => parsed.schema.database_type = "sqlite"
          /\ parsed.schema.database_type \in {"sqlite", "postgres", "mysql"}
          /\ _map_dialect(parsed.schema.database_type) = parsed.schema.database_type

C17_Witness ==
    /\ Returned
    /\ dialect = "MariaDB"
    /\ parsed.schema.database_type = "mysql"
    /\ parsed.schema.tables # <<>>

\* C20: when one statement of a DDL text cannot be parsed, parse still
\* returns the tables of every other CREATE TABLE statement: the failure
\* does not abort the statements after it.
C20_BadStatementDoesNotAbort ==
    (parsed.outcome # "pending" /\ SqlglotRaises(ddl) /\ DefinedIn(ddl) # {}) =>
        /\ Returned
        /\ TableNamesOf(parsed.schema) = DefinedIn(ddl)

----------------------------------------------------------------------------
(* Properties of SQLGenerator.generate_suggestions (GenSpec).              *)

\* what a plan asks for: the shape of its query, the table it reads, the
\* column it groups by, the tables it joins, and its visualization
PlanOutline(shape, t, c, js, v) ==
    [shape |-> shape, from_table |-> t, column |-> c, joins |-> js, visualization |-> v]

OutlineOf(s) ==
    PlanOutline(s.query.shape, s.query.from_table, s.query.column, s.query.joins,
                s.visualization_type)

Outlines(plans) == [i \in DOMAIN plans |-> OutlineOf(plans[i])]

\* the tables of the planned schema with the given name
TablesNamed(n) == {i \in DOMAIN plan_schema.tables : plan_schema.tables[i].name = n}

\* relationship i names two tables of the schema
BothTablesExist(i) ==
    /\ TablesNamed(plan_schema.relationships[i].from_table) # {}
    /\ TablesNamed(plan_schema.relationships[i].to_table) # {}

\* the categorical columns of the parent table of relationship i, by
\* position; with_keys says whether primary-key columns count
ParentCategoricals(i, with_keys) ==
    LET t == CHOOSE k \in TablesNamed(plan_schema.relationships[i].to_table) : TRUE
        columns == plan_schema.tables[t].columns
    IN {j \in DOMAIN columns :
           /\ _is_categorical_type(columns[j].data_type)
           /\ with_keys \/ ~columns[j].is_primary_key}

RECURSIVE ExpectedRelationshipPlans(_, _)
\* the plans the relationships from position i on are to contribute
ExpectedRelationshipPlans(i, with_keys) ==
    IF i > Len(plan_schema.relationships) THEN <<>>
    ELSE LET r == plan_schema.relationships[i] IN
         (IF ~BothTablesExist(i) THEN <<>>
          ELSE <<PlanOutline("join", r.from_table, r.from_column, <<r.to_table>>, "table")>>
               \o
               (IF ParentCategoricals(i, with_keys) = {} THEN <<>>
                ELSE LET t == CHOOSE k \in TablesNamed(r.to_table) : TRUE
                         first == CHOOSE j \in ParentCategoricals(i, with_keys) :
                                     \A k \in ParentCategoricals(i, with_keys) : j <= k
                     IN <<PlanOutline("join_count", r.from_table,
                                      plan_schema.tables[t].columns[first].name,
                                      <<r.to_table>>, "bar")>>))
         \o ExpectedRelationshipPlans(i + 1, with_keys)

RelationshipsPlanned == RuleBased /\ plan_intents = <<"relationships">>

\* C21 (as stated): each relationship between two tables of the schema
\* contributes, in relationship order, a join plan (table) and then a
\* COUNT ... GROUP BY plan (bar) exactly when the parent table has a
\* categorical column; a relationship naming an absent table contributes
\* nothing and stops nothing.
C21_AggregateWhenParentCategorical ==
    RelationshipsPlanned => Outlines(suggestions) = ExpectedRelationshipPlans(1, TRUE)

\* C21 (amended): the same, with the COUNT ... GROUP BY plan exactly when
\* the parent table has a categorical column that is not a primary key;
\* the plan groups by the first such column.
C21_AggregateWhenParentCategoricalNonKey ==
    RelationshipsPlanned => Outlines(suggestions) = ExpectedRelationshipPlans(1, FALSE)

\* a relationship to an absent table stands before one between two tables
\* of the schema, and plans were returned
C21_Witness ==
    /\ RelationshipsPlanned
    /\ \E i, j \in DOMAIN plan_schema.relationships :
          i < j /\ ~BothTablesExist(i) /\ BothTablesExist(j)
    /\ Len(suggestions) = 2

RECURSIVE FirstOf(_, _)
\* the n smallest positions of S, ascending: the first n in declaration order
FirstOf(S, n) ==
    IF S = {} \/ n = 0 THEN <<>>
    ELSE LET m == CHOOSE x \in S : \A y \in S : x <= y
         IN <<m>> \o FirstOf(S \ {m}, n - 1)

\* positions of the columns of table t by the vocabulary their type matches
CategoricalAt(t, with_keys) ==
    {j \in DOMAIN plan_schema.tables[t].columns :
        /\ _is_categorical_type(plan_schema.tables[t].columns[j].data_type)
        /\ with_keys \/ ~plan_schema.tables[t].columns[j].is_primary_key}

NumericAt(t, with_keys) ==
    {j \in DOMAIN plan_schema.tables[t].columns :
        /\ _is_numeric_type(plan_schema.tables[t].columns[j].data_type)
        /\ with_keys \/ ~plan_schema.tables[t].columns[j].is_primary_key}

TemporalAt(t) ==
    {j \in DOMAIN plan_schema.tables[t].columns :
        _is_date_type(plan_schema.tables[t].columns[j].data_type)}

\* one plan of the given shape and visualization per listed column of table t
ColumnPlans(t, positions, shape, v) ==
    [k \in DOMAIN positions |->
        PlanOutline(shape, plan_schema.tables[t].name,
                    plan_schema.tables[t].columns[positions[k]].name, <<>>, v)]

\* the distribution plans the tables are to contribute; numeric_keys says
\* whether a numeric primary key counts as a numeric column
ExpectedDistributionPlans(numeric_keys) ==
    Flatten([t \in DOMAIN plan_schema.tables |->
        ColumnPlans(t, FirstOf(CategoricalAt(t, FALSE), 3), "distribution", "bar")
        \o ColumnPlans(t, FirstOf(NumericAt(t, numeric_keys), 2), "histogram", "bar")])

DistributionsPlanned == RuleBased /\ plan_intents = <<"distributions">>

\* C22 (as stated): each table contributes, in declaration order, a bar
\* plan for each of its first 3 categorical non-primary-key columns and a
\* binned bar plan for each of its first 2 numeric columns.
C22_FirstThreeAndFirstTwo ==
    DistributionsPlanned => Outlines(suggestions) = ExpectedDistributionPlans(TRUE)

\* C22 (amended): each table contributes a bar plan for each of its first
\* 3 categorical non-primary-key columns and then a binned bar plan for
\* each of its first 2 numeric non-primary-key columns, each group in
\* declaration order.
C22_FirstThreeAndFirstTwoNonKey ==
    DistributionsPlanned => Outlines(suggestions) = ExpectedDistributionPlans(FALSE)

\* a table with more than three categorical and more than two numeric
\* columns besides its key gave five plans
C22_Witness ==
    /\ DistributionsPlanned
    /\ Len(plan_schema.tables) = 1
    /\ Cardinality(CategoricalAt(1, FALSE)) > 3
    /\ Cardinality(NumericAt(1, FALSE)) > 2
    /\ NumericAt(1, TRUE) # NumericAt(1, FALSE)
    /\ Len(suggestions) = 5

\* the time-series plans the tables are to contribute: for a table with a
\* temporal column, the daily count over its first temporal column, then
\* one trend per numeric column
ExpectedTimeSeriesPlans(numeric_keys) ==
    Flatten([t \in DOMAIN plan_schema.tables |->
        IF TemporalAt(t) = {} THEN <<>>
        ELSE ColumnPlans(t, FirstOf(TemporalAt(t), 1), "daily_count", "line")
             \o ColumnPlans(t, FirstOf(NumericAt(t, numeric_keys), 2), "trend", "line")])

TimeSeriesPlanned == RuleBased /\ plan_intents = <<"time_series">>

\* C23 (as stated): a table with a temporal column contributes one
\* daily-count line plan and then one AVG/MIN/MAX trend line plan for each
\* of its first 2 numeric columns in declaration order; a table without a
\* temporal column contributes nothing.
C23_DailyCountAndTrends ==
    TimeSeriesPlanned => Outlines(suggestions) = ExpectedTimeSeriesPlans(TRUE)

\* C23 (amended): the same, the trend plans being for the first 2 numeric
\* columns that are not primary keys; the daily count is over the first
\* temporal column.
C23_DailyCountAndTrendsNonKey ==
    TimeSeriesPlanned => Outlines(suggestions) = ExpectedTimeSeriesPlans(FALSE)

\* a table without a temporal column beside one with two temporal and
\* more than two numeric columns: three plans
C23_Witness ==
    /\ TimeSeriesPlanned
    /\ Len(plan_schema.tables) = 2
    /\ TemporalAt(1) = {}
    /\ NumericAt(1, FALSE) # {}
    /\ Cardinality(TemporalAt(2)) = 2
    /\ Cardinality(NumericAt(2, FALSE)) > 2
    /\ Len(suggestions) = 3

\* the plans that use a column as numeric, and those that use it as
\* categorical or temporal
NumericUses == {"histogram", "trend"}

OtherUses == {"distribution", "daily_count"}

\* C24: classification is single-valued (numeric, then temporal, then
\* categorical): the planner never uses one column both as a numeric
\* column and as a categorical or temporal column.
C24_ColumnUsedInOneCategory ==
    RuleBased =>
        \A i, j \in DOMAIN suggestions :
            ~ /\ suggestions[i].query.shape \in NumericUses
              /\ suggestions[j].query.shape \in OtherUses
              /\ suggestions[i].query.from_table = suggestions[j].query.from_table
              /\ suggestions[i].query.column = suggestions[j].query.column

\* the tables of the planned schema without a column
ZeroColumnTables ==
    {plan_schema.tables[t].name : t \in {k \in DOMAIN plan_schema.tables :
                                            plan_schema.tables[k].columns = <<>>}}

\* C27: a CREATE TABLE from which no column is parsed stays in the schema
\* with an empty column list, and such a table contributes no plan under
\* any intent of the rule-based planner, overview included.
C27_ZeroColumnTableNotPlanned ==
    RuleBased =>
        \A i \in DOMAIN suggestions :
            /\ suggestions[i].query.from_table \notin ZeroColumnTables
            /\ \A j \in DOMAIN suggestions[i].query.joins :
                  suggestions[i].query.joins[j] \notin ZeroColumnTables

\* the plans one intent tag is to contribute
ExpectedOverviewPlans ==
    Flatten([t \in DOMAIN plan_schema.tables |->
        << PlanOutline("sample", plan_schema.tables[t].name, None, <<>>, "table"),
           PlanOutline("count", plan_schema.tables[t].name, None, <<>>, "table") >>])

ExpectedAggregationPlans ==
    Flatten([t \in DOMAIN plan_schema.tables |->
        IF NumericAt(t, FALSE) = {} THEN <<>>
        ELSE <<PlanOutline("summary", plan_schema.tables[t].name, None, <<>>, "table")>>])

ExpectedFor(tag) ==
    CASE tag = "overview" -> ExpectedOverviewPlans
      [] tag = "distributions" -> ExpectedDistributionPlans(FALSE)
      [] tag = "relationships" -> ExpectedRelationshipPlans(1, FALSE)
      [] tag = "time_series" -> ExpectedTimeSeriesPlans(FALSE)
      [] tag = "aggregations" -> ExpectedAggregationPlans
      [] OTHER -> <<>>

RECURSIVE ExpectedPlans(_)
ExpectedPlans(tags) ==
    IF tags = <<>> THEN <<>>
    ELSE ExpectedFor(Head(tags)) \o ExpectedPlans(Tail(tags))

\* C28: generate_suggestions returns the concatenation, in the order of the
\* intent list, of each intent's plans, a repeated intent repeating its
\* plans; an unrecognised tag contributes nothing; a missing or empty list
\* behaves like [overview, distributions, relationships, time_series].
C28_ConcatenationInIntentOrder ==
    RuleBased =>
        Outlines(suggestions) =
            ExpectedPlans(IF plan_intents = <<>>
                          THEN <<"overview", "distributions", "relationships", "time_series">>
                          ELSE plan_intents)

\* an unrecognised tag between two recognised ones, each of which planned
C28_Witness ==
    /\ RuleBased
    /\ plan_intents = <<"time_series", "dashboard", "overview">>
    /\ Len(suggestions) > 2
    /\ suggestions[1].query.shape = "daily_count"
    /\ suggestions[Len(suggestions)].query.shape = "count"

\* a repeated intent whose plans are there twice
C28_RepeatedWitness ==
    /\ RuleBased
    /\ plan_intents = <<"relationships", "relationships">>
    /\ suggestions # <<>>

\* an empty list planned as the four default intents
C28_DefaultWitness ==
    /\ RuleBased
    /\ plan_intents = <<>>
    /\ \E i \in DOMAIN suggestions : suggestions[i].query.shape = "trend"

----------------------------------------------------------------------------
(* Properties of the connector's reading of a reply (ExtractSpec).         *)

\* where the span opened at position i closes: the first position at
\* which as many "}" as "{" have been met (0: nowhere)
RECURSIVE SpanEnd(_, _, _)
SpanEnd(response, i, depth) ==
    IF i > Len(response) THEN 0
    ELSE LET d == IF response[i] = "{" THEN depth + 1
                  ELSE IF response[i] = "}" THEN depth - 1
                  ELSE depth
         IN IF d = 0 THEN i ELSE SpanEnd(response, i + 1, d)

\* the first top-level {...} span of a reply (<<>>: none)
FirstTopLevelSpan(response) ==
    IF Positions(response, "{") = {} THEN <<>>
    ELSE LET first == Least(Positions(response, "{"))
             last == SpanEnd(response, first, 0)
         IN IF last = 0 THEN <<>> ELSE SubSeq(response, first, last)

\* what the two readers return for a decoded object
ResultOfObject(obj) ==
    IF extract_call = "generate_sql_query" /\ "query" \in obj.keys
    THEN [obj EXCEPT !.query = _clean_sql(@)]
    ELSE obj

\* C26: when the reply contains an embedded JSON object, the first
\* top-level {...} span is what is parsed and returned, also when further
\* text or further braces follow it; only a reply without valid embedded
\* JSON makes the sub-decision fall back to its default.
C26_FirstTopLevelSpanParsed ==
    (extract_call # "none" /\ json_valid(FirstTopLevelSpan(response_tokens)))
        => extract_result = ResultOfObject(json_loads_object(FirstTopLevelSpan(response_tokens)))

----------------------------------------------------------------------------
(* Properties of QueryExecutor (ExecSpec).                                 *)

\* C29: execute_query runs a query only on an open connection: called
\* before connect, after a connect that failed or after disconnect (or
\* __exit__), it raises RuntimeError('Not connected to database') and
\* executes nothing.
C29_NotConnectedIsRuntimeError ==
    (exec_last.op = "execute_query" /\ exec_last.before # "open")
        => /\ exec_last.raised = "RuntimeError: Not connected to database"
           /\ exec_last.executed = <<>>

\* the entry execute_queries stores for query i of the submitted list
EntryFor(i) ==
    LET q == exec_last.submitted[i] IN
    IF exec_last.before = None
    THEN DataEntry("error", q.description, None, 0, <<>>,
                   "RuntimeError: Not connected to database", q.query)
    ELSE IF exec_last.before = "closed"
    THEN DataEntry("error", q.description, None, 0, <<>>,
                   "driver error: closed connection", q.query)
    ELSE IF q.query = BadSql
    THEN DataEntry("error", q.description, None, 0, <<>>, "driver error: query", q.query)
    ELSE IF exec_config.combine_results
    THEN DataEntry("combined", q.description, q.visualization_type, 1, <<"row">>,
                   None, None)
    ELSE DataEntry("rows", None, None, 0, <<"row">>, None, None)

Succeeded(i) == exec_last.before = "open" /\ exec_last.submitted[i].query = GoodSql

\* the entries of the queries list for the queries from i on that succeeded
RECURSIVE SuccessfulFrom(_)
SuccessfulFrom(i) ==
    IF i > Len(exec_last.submitted) THEN <<>>
    ELSE (IF Succeeded(i)
          THEN <<QueryInfo(exec_last.submitted[i].description, exec_last.submitted[i].query,
                           exec_last.submitted[i].result_key, 1)>>
          ELSE <<>>) \o SuccessfulFrom(i + 1)

\* the last query submitted under the result_key of query i
LastWithKeyOf(i) ==
    Greatest({j \in DOMAIN exec_last.submitted :
                exec_last.submitted[j].result_key = exec_last.submitted[i].result_key})

QueriesReturned == exec_last.op = "execute_queries"

\* what holds of every call of execute_queries, whichever entry a key has
ExecuteQueriesCompletes ==
    /\ exec_last.raised = None
    /\ DOMAIN exec_last.value.data
          = {exec_last.submitted[i].result_key : i \in DOMAIN exec_last.submitted}
    /\ exec_last.value.queries = SuccessfulFrom(1)
    /\ exec_last.attempted
          = [i \in DOMAIN exec_last.submitted |-> exec_last.submitted[i].query]
    /\ exec_last.before = "open" => exec_last.executed = exec_last.attempted
    /\ exec_last.value.metadata.query_count = Len(exec_last.submitted)

\* C30 (as stated): execute_queries never aborts on a failing query: the
\* data map has under the result_key of every submitted query the rows of
\* that query if it succeeded and an error record if it failed; the
\* queries list is the successful queries in submission order; every query
\* after a failed one is still handed to execute_query; metadata.query_count
\* is the number of queries submitted.
C30_EveryQueryHasItsEntry ==
    QueriesReturned =>
        /\ ExecuteQueriesCompletes
        /\ \A i \in DOMAIN exec_last.submitted :
              exec_last.value.data[exec_last.submitted[i].result_key] = EntryFor(i)

\* C30 (amended): the same, the entry under a result_key being that of the
\* last submitted query with this key.
C30_LastQueryOfKeyHasEntry ==
    QueriesReturned =>
        /\ ExecuteQueriesCompletes
        /\ \A i \in DOMAIN exec_last.submitted :
              exec_last.value.data[exec_last.submitted[i].result_key]
                  = EntryFor(LastWithKeyOf(i))

\* on an open connection, a failing query followed by a successful one
\* under another key
C30_Witness ==
    /\ QueriesReturned
    /\ exec_last.before = "open"
    /\ Len(exec_last.submitted) = 2
    /\ exec_last.submitted[1].query = BadSql
    /\ exec_last.submitted[2].query = GoodSql
    /\ exec_last.submitted[1].result_key # exec_last.submitted[2].result_key
    /\ exec_last.executed = <<BadSql, GoodSql>>
    /\ Len(exec_last.value.queries) = 1

----------------------------------------------------------------------------
(* Properties of MCPServer.process_json_request (TripSpec).                *)

Processed == trip_requests > 0

\* the text reaches json.loads and is not valid JSON
Malformed(text) == ~text.blank /\ text.len <= 10000 /\ ~text.well_formed

\* the text is valid JSON but no request: not an object, or an object whose
\* task is not nl_query or whose query is missing, no string, empty, blank
\* or longer than 2000 characters
InvalidRequest(text) ==
    /\ ~text.blank /\ text.len <= 10000 /\ text.well_formed
    /\ \/ text.value.kind # "object"
       \/ text.value.task # "nl_query"
       \/ text.value.query.kind # "str"
       \/ text.value.query.stripped = 0
       \/ text.value.query.stripped > 2000

\* C18: for an empty input, an input over the 10 KB limit, malformed JSON,
\* JSON that is no object and an object with invalid fields,
\* process_json_request returns a document with status error, raises
\* nothing and does not invoke the agent; malformed JSON is reported with
\* a message that contains "Invalid JSON".
C18_BadInputIsErrorDocument ==
    Processed =>
        /\ trip_raised = None
        /\ (json_str.blank \/ json_str.len > 10000 \/ Malformed(json_str)
              \/ InvalidRequest(json_str)) =>
              /\ json_response.status = "error"
              /\ "error" \in json_response.keys
              /\ trip_calls = <<>>
        /\ Malformed(json_str) => json_response.error[1] = "Invalid JSON format"

----------------------------------------------------------------------------
(* Properties of the agent's schema cache (AgentSpec).                     *)

\* C19: a planning call for a schema whose hash is already in the schema
\* cache makes no further analysis request to the language model, and one
\* server request analyses its schema at most once.
C19_CacheAvoidsReanalysis ==
    /\ (agent_calls > 0 /\ agent_last.cached_before) => agent_last.analyses = 0
    /\ agent_last.entry = "_handle_ddl_input" => agent_last.analyses <= 1

====
